---- MODULE Spec2Model ----
(***************************************************************************)
(* The real-time session layer of spectrus: the connection hub             *)
(* (server/internal/hub: hub.go, client.go, voice.go and the message       *)
(* handlers) as a state machine.  One action per goroutine step: the Run   *)
(* event loop's three select cases, each readPump's frame handlers, the    *)
(* writePump, and the goroutines that carry the media-service calls.       *)
(***************************************************************************)
EXTENDS Integers, Sequences, FiniteSets, TLC

\* ------------------------------------------------------------------ bounds
\* Number of connections ServeWS creates in a run.
NConn == 2
\* Number of inbound frames handled over all connections in a run.
MaxFrames == 2
\* Capacity of a client's send channel (256 in newClient), scaled down.
QueueCap == 1
\* Capacity of the hub's broadcast channel (256 in NewHub), scaled down.
BroadcastCap == 1

Conns == 1 .. NConn
UserOrder == <<"u1", "u2">>
Users == {UserOrder[k] : k \in 1 .. Len(UserOrder)}
\* Channel ids a client can put in a frame; "" is the empty-string id.
Channels == {"", "general", "other"}
\* JSON null in a channel_id field.
Null == "<null>"
\* Signal types a client can put in a VOICE_SIGNAL frame; "" is a missing type.
SignalTypes == {"", "produce"}

VARIABLES
    clients,     \* Hub.clients: the registered connections
    userIndex,   \* Hub.userIndex: user id -> sequence of connections
    broadcast,   \* Hub.broadcast: the buffered channel of envelopes
    voiceState,  \* Hub.voiceState: channel id -> set of user ids
    userVoice,   \* Hub.userVoice: user id -> channel id
    UserID,      \* Client.UserID of each connection created so far
    send,        \* Client.send: the buffered contents of each send channel
    closeCount,  \* number of close(c.send) executed on each send channel
    rpc,         \* where each connection's readPump goroutine stands
    pending,     \* the envelope a readPump is about to hand to Broadcast
    wpc,         \* where each connection's writePump goroutine stands
    hubState,    \* the Run goroutine: running, blocked or panicked
    calls,       \* the live goroutines carrying media join and signal calls
    leaves,      \* the media leave calls issued so far (fire and forget)
    frames,      \* number of inbound frames handled so far
    unregSeen,   \* number of unregister receives Run has made per connection
    cleaned,     \* whether Run's LeaveVoiceChannel ran for the connection
    sendToUser   \* the SendToUser call in progress on some other goroutine

\* The media service (media/src: index.ts, Room.ts, Peer.ts): one Node process.
VARIABLES
    rooms,        \* index.ts `rooms`: channel id -> Room
    roomTab,      \* the Room objects created so far, in creation order
    peerTab,      \* the Peer objects created so far
    transportTab, \* the WebRtcTransports created so far
    producerTab,  \* the Producers created so far
    consumerTab,  \* the Consumers created so far
    reqs,         \* the request handlers suspended at an await
    nReq,         \* number of requests received so far
    lastResp      \* the response sent last

\* The hub's media calls on their way to, or being served by, the media service.
VARIABLES
    wire          \* media.Client calls issued and not yet answered with success

\* The browser clients (client/src: VoiceService.ts, useVoiceStore.ts,
\* SpectrusSocket.ts), one per user.
VARIABLES
    client,       \* each user's VoiceService fields and voice store
    inbox,        \* each user's socket: events sent by the hub, not yet dispatched
    socket        \* one SpectrusSocket: its fields, its WebSockets, its timers

meshVars == <<client, inbox, socket>>

hubVars == <<clients, userIndex, broadcast, voiceState, userVoice, UserID, send,
             closeCount, rpc, pending, wpc, hubState, calls, leaves, frames,
             unregSeen, cleaned, sendToUser>>

sfuVars == <<rooms, roomTab, peerTab, transportTab, producerTab, consumerTab,
             reqs, nReq, lastResp>>

\* The hub's state apart from the voice store and the frame count.
hubRest == <<clients, userIndex, broadcast, UserID, send, closeCount, rpc,
             pending, wpc, hubState, calls, leaves, unregSeen, cleaned,
             sendToUser>>

\* What a step of the hub process alone leaves unchanged.
offHub == <<sfuVars, wire, meshVars, sendToUser>>

\* What a step of the media service alone leaves unchanged.
offSfu == <<hubVars, wire, meshVars>>

vars == <<hubVars, sfuVars, wire, meshVars>>

\* ------------------------------------------------------------- Go maps
MapGet(m, k, zero) == IF k \in DOMAIN m THEN m[k] ELSE zero

MapPut(m, k, v) == [x \in DOMAIN m \cup {k} |-> IF x = k THEN v ELSE m[x]]

MapDelete(m, k) == [x \in DOMAIN m \ {k} |-> m[x]]

EmptyMap == [x \in {} |-> {}]

\* ------------------------------------------------------------- envelopes
NoEvent == [t |-> "", user |-> "", channel |-> "", kind |-> ""]

VoiceStateUpdate(u, ch) ==
    [t |-> "VOICE_STATE_UPDATE", user |-> u, channel |-> ch, kind |-> ""]

VoiceSignalResponse(kind, ch) ==
    [t |-> "VOICE_SIGNAL", user |-> "", channel |-> ch, kind |-> kind]

\* The media service is always configured by main (media.NewClient is never nil).
MediaConfigured == TRUE

\* ------------------------------------------------- voice membership store
\* delete(h.voiceState[k], u) with the emptied channel left in the map.
RemoveMemberNoPrune(vs, k, u) ==
    IF k \notin DOMAIN vs THEN vs ELSE MapPut(vs, k, vs[k] \ {u})

\* delete(h.voiceState[k], u), then prune the channel when its set is empty.
RemoveMember(vs, k, u) ==
    IF k \notin DOMAIN vs THEN vs
    ELSE IF vs[k] \ {u} = {} THEN MapDelete(vs, k)
         ELSE MapPut(vs, k, vs[k] \ {u})

\* JoinVoiceChannel: the new maps and the returned previous channel.
JoinVoiceChannel(vs, uv, u, ch) ==
    LET prev == MapGet(uv, u, "")
        vs1  == IF prev # "" /\ prev # ch THEN RemoveMember(vs, prev, u) ELSE vs
        vs2  == MapPut(vs1, ch, MapGet(vs1, ch, {}) \cup {u})
    IN  [voiceState |-> vs2, userVoice |-> MapPut(uv, u, ch), prev |-> prev]

\* LeaveVoiceChannel: the new maps, the channel left and whether there was one.
LeaveVoiceChannel(vs, uv, u) ==
    IF u \notin DOMAIN uv
    THEN [voiceState |-> vs, userVoice |-> uv, channelID |-> "", was |-> FALSE]
    ELSE [voiceState |-> RemoveMember(vs, uv[u], u),
          userVoice  |-> MapDelete(uv, u),
          channelID  |-> uv[u], was |-> TRUE]

\* VoiceChannelOf: (channelID, ok).
VoiceChannelOf(u) ==
    [channelID |-> MapGet(userVoice, u, ""), ok |-> u \in DOMAIN userVoice]

\* VoiceMembers: the snapshot of a channel's members.
VoiceMembers(ch) == MapGet(voiceState, ch, {})

\* ------------------------------------------------------------- registry
SeqRange(s) == {s[i] : i \in 1 .. Len(s)}

RECURSIVE Filter(_, _)
Filter(s, target) ==
    IF s = <<>> THEN <<>>
    ELSE IF Head(s) = target THEN Filter(Tail(s), target)
         ELSE <<Head(s)>> \o Filter(Tail(s), target)

\* removeFromUserIndex without the delete of an emptied key.
removeFromUserIndexKeepKey(idx, target, u) ==
    MapPut(idx, u, Filter(MapGet(idx, u, <<>>), target))

\* removeFromUserIndex: filter the target out; drop the key when none is left.
removeFromUserIndex(idx, target, u) ==
    LET filtered == Filter(MapGet(idx, u, <<>>), target)
    IN  IF filtered = <<>> THEN MapDelete(idx, u) ELSE MapPut(idx, u, filtered)

IsClosed(cc, c) == cc[c] > 0

\* A goroutine carrying a media call: op is join, leave or signal; id is the
\* number of the frame whose handler spawned it (0: spawned by Run on a
\* disconnect).  A join or signal goroutine lives in `calls` until its response
\* has been dealt with; a leave goroutine only logs an error, so the hub never
\* hears of it again and it is kept in `leaves` as issued.
Call(id, op, ch, u, c, kind) ==
    [id |-> id, op |-> op, ch |-> ch, u |-> u, conn |-> c, kind |-> kind,
     phase |-> "inflight"]

\* The goroutine g moved to another phase.
AtPhase(g, ph) == [g EXCEPT !.phase = ph]

\* The outcomes of `for client := range targets { client.sendEvent(evt) }` on
\* the Run goroutine.  Map iteration order is unspecified, so any set of the
\* healthy targets may be served before the first target that stops the loop:
\* a closed send channel panics the send; a full one is closed and Run then
\* blocks in `c.hub.unregister <- c`, a channel only Run itself receives from.
FanOut(sd, cc, targets, evt) ==
    LET bad  == {d \in targets : IsClosed(cc, d) \/ Len(sd[d]) >= QueueCap}
        good == targets \ bad
        deliver(D) == [d \in Conns |-> IF d \in D THEN Append(sd[d], evt) ELSE sd[d]]
    IN  IF bad = {}
        THEN {[send |-> deliver(targets), closeCount |-> cc, hub |-> "running"]}
        ELSE {[send |-> deliver(D),
               closeCount |-> IF IsClosed(cc, b) THEN cc ELSE [cc EXCEPT ![b] = 1],
               hub |-> IF IsClosed(cc, b) THEN "panicked" ELSE "blocked"]
              : b \in bad, D \in SUBSET good}

Alive == hubState # "panicked"

\* No SendToUser call is running.  A running one has the slice its range
\* statement evaluated (snap), the index of the next element (i), and the
\* connection it stands in sendEvent's unregister for (conn).
NoSendToUser == [pc |-> "idle", u |-> "", i |-> 0, snap |-> <<>>, conn |-> 0]

\* ------------------------------------------------------------------ Init
InitHub ==
    /\ clients = {}
    /\ userIndex = EmptyMap
    /\ broadcast = <<>>
    /\ voiceState = EmptyMap
    /\ userVoice = EmptyMap
    /\ UserID = [c \in Conns |-> ""]
    /\ send = [c \in Conns |-> <<>>]
    /\ closeCount = [c \in Conns |-> 0]
    /\ rpc = [c \in Conns |-> "new"]
    /\ pending = [c \in Conns |-> NoEvent]
    /\ wpc = [c \in Conns |-> "off"]
    /\ hubState = "running"
    /\ calls = {}
    /\ leaves = {}
    /\ frames = 0
    /\ unregSeen = [c \in Conns |-> 0]
    /\ cleaned = [c \in Conns |-> FALSE]
    /\ sendToUser = NoSendToUser

\* No response sent yet.
NoResponse == [id |-> 0, op |-> "", ch |-> "", u |-> "", status |-> 0, body |-> <<>>]

\* index.ts at startup: an empty registry, no request received.
InitSfu ==
    /\ rooms = EmptyMap
    /\ roomTab = <<>>
    /\ peerTab = <<>>
    /\ transportTab = <<>>
    /\ producerTab = <<>>
    /\ consumerTab = <<>>
    /\ reqs = {}
    /\ nReq = 0
    /\ lastResp = NoResponse

\* A client before VoiceService.join: an empty voice store, no subscription.
InitClient ==
    [pc |-> "idle", consumeInProgress |-> FALSE, prevMemberCount |-> 0,
     watching |-> FALSE, channelMembers |-> EmptyMap, userChannel |-> EmptyMap]

\* A WebSocket just created by `new WebSocket(url)`.
NewWebSocket == [state |-> "connecting", code |-> 0]

\* A SpectrusSocket after its constructor, which calls connect().
InitSocket ==
    [destroyed |-> FALSE, ws |-> 1, attempt |-> 0, retryTimer |-> 0,
     socks |-> <<NewWebSocket>>, timers |-> <<>>]

InitMesh ==
    /\ client = [u \in Users |-> InitClient]
    /\ inbox = [u \in Users |-> <<>>]
    /\ socket = InitSocket

Init == InitHub /\ InitSfu /\ wire = {} /\ InitMesh

\* ------------------------------------------------- connection lifecycle
\* User ids are opaque to the hub: users are named in the order in which
\* their first connection arrives.
FirstSeenOrder(u) ==
    \A k \in 2 .. Len(UserOrder) :
        u = UserOrder[k] => UserOrder[k - 1] \in {UserID[d] : d \in Conns}

\* ServeWS: newClient, then `h.register <- c` received by Run's register case,
\* then the two pumps start.  Connections are numbered in creation order.
ServeWS(c, u) ==
    /\ hubState = "running"
    /\ rpc[c] = "new"
    /\ \A d \in Conns : d < c => rpc[d] # "new"
    /\ FirstSeenOrder(u)
    /\ UserID' = [UserID EXCEPT ![c] = u]
    /\ clients' = clients \cup {c}
    /\ userIndex' = MapPut(userIndex, u, Append(MapGet(userIndex, u, <<>>), c))
    /\ rpc' = [rpc EXCEPT ![c] = "read"]
    /\ wpc' = [wpc EXCEPT ![c] = "run"]
    /\ UNCHANGED <<broadcast, voiceState, userVoice, send, closeCount, pending,
                   hubState, calls, leaves, frames, unregSeen, cleaned>>
    /\ UNCHANGED offHub

\* readPump: ReadMessage fails (the peer closed, or writePump closed the
\* socket); the deferred function now waits in `c.hub.unregister <- c`.
ReadError(c) ==
    /\ Alive
    /\ rpc[c] = "read"
    /\ rpc' = [rpc EXCEPT ![c] = "unreg"]
    /\ UNCHANGED <<clients, userIndex, broadcast, voiceState, userVoice, UserID,
                   send, closeCount, pending, wpc, hubState, calls, leaves, frames,
                   unregSeen, cleaned>>
    /\ UNCHANGED offHub

\* writePump: take one message off c.send and write it; on a closed and
\* drained channel write the close message and return.
WritePump(c) ==
    /\ Alive
    /\ wpc[c] = "run"
    /\ \/ /\ send[c] # <<>>
          /\ send' = [send EXCEPT ![c] = Tail(send[c])]
          /\ wpc' = wpc
       \/ /\ send[c] = <<>>
          /\ IsClosed(closeCount, c)
          /\ wpc' = [wpc EXCEPT ![c] = "done"]
          /\ send' = send
    /\ UNCHANGED <<clients, userIndex, broadcast, voiceState, userVoice, UserID,
                   closeCount, rpc, pending, hubState, calls, leaves, frames, unregSeen,
                   cleaned>>
    /\ UNCHANGED offHub

\* ------------------------------------------------------- frame handlers
\* A readPump that reads the next frame only once its relay calls have returned.
CanHandleAfterCalls(c) ==
    /\ Alive /\ rpc[c] = "read" /\ frames < MaxFrames
    /\ \A g \in calls \cup leaves : g.conn = c => g.phase # "inflight"

\* A readPump that reads the next frame while the handler of the last one
\* still stands at h.Broadcast.
CanHandlePipelined(c) ==
    Alive /\ rpc[c] \in {"read", "bcast"} /\ frames < MaxFrames

\* readPump's loop: ReadMessage, then handleMessage on the same goroutine.
CanHandle(c) == Alive /\ rpc[c] = "read" /\ frames < MaxFrames

\* A media leave for the previous channel on every join that has one.
SwitchLeavesAnyPrev(id, prev, ch, u, c) ==
    IF prev # "" /\ MediaConfigured
    THEN {Call(id, "leave", prev, u, c, "switch")} ELSE {}

\* The goroutines handleVoiceStateUpdate spawns on a join or switch.
SwitchLeaves(id, prev, ch, u, c) ==
    IF prev # "" /\ prev # ch /\ MediaConfigured
    THEN {Call(id, "leave", prev, u, c, "switch")} ELSE {}

JoinCalls(id, ch, u, c) ==
    IF MediaConfigured THEN {Call(id, "join", ch, u, c, "join_response")} ELSE {}

\* handleVoiceStateUpdate with a channel id: store join, media calls spawned;
\* the handler then stands at h.Broadcast.
HandleVoiceStateJoin(c, ch) ==
    /\ CanHandle(c)
    /\ LET r == JoinVoiceChannel(voiceState, userVoice, UserID[c], ch)
       IN  /\ voiceState' = r.voiceState
           /\ userVoice' = r.userVoice
           /\ leaves' = leaves \cup SwitchLeaves(frames + 1, r.prev, ch, UserID[c], c)
           /\ calls' = calls \cup JoinCalls(frames + 1, ch, UserID[c], c)
    /\ pending' = [pending EXCEPT ![c] = VoiceStateUpdate(UserID[c], ch)]
    /\ rpc' = [rpc EXCEPT ![c] = "bcast"]
    /\ frames' = frames + 1
    /\ UNCHANGED <<clients, userIndex, broadcast, UserID, send, closeCount, wpc,
                   hubState, unregSeen, cleaned>>
    /\ UNCHANGED offHub

\* handleVoiceStateUpdate with channel_id null: store leave; when the user was
\* in a channel, media leave spawned and the handler stands at h.Broadcast.
HandleVoiceStateLeave(c) ==
    /\ CanHandle(c)
    /\ LET r == LeaveVoiceChannel(voiceState, userVoice, UserID[c])
       IN  /\ voiceState' = r.voiceState
           /\ userVoice' = r.userVoice
           /\ IF r.was
              THEN /\ leaves' = IF MediaConfigured
                                THEN leaves \cup {Call(frames + 1, "leave", r.channelID, UserID[c], c, "leave")}
                                ELSE leaves
                   /\ pending' = [pending EXCEPT ![c] = VoiceStateUpdate(UserID[c], Null)]
                   /\ rpc' = [rpc EXCEPT ![c] = "bcast"]
              ELSE UNCHANGED <<leaves, pending, rpc>>
    /\ frames' = frames + 1
    /\ UNCHANGED <<clients, userIndex, broadcast, UserID, send, closeCount, wpc,
                   hubState, calls, unregSeen, cleaned>>
    /\ UNCHANGED offHub

\* handleVoiceSignal without the membership gate.
SignalAuthorizedNoCheck(c, ch) == TRUE

\* handleVoiceSignal's gate: the sender is in the claimed channel.
SignalAuthorized(c, ch) ==
    VoiceChannelOf(UserID[c]).ok /\ VoiceChannelOf(UserID[c]).channelID = ch

\* handleVoiceSignal: validate, authorize, spawn the relay goroutine.
HandleVoiceSignal(c, ch, type) ==
    /\ CanHandle(c)
    /\ calls' = IF /\ ch # "" /\ type # ""
                   /\ MediaConfigured
                   /\ SignalAuthorized(c, ch)
                THEN calls \cup {Call(frames + 1, "signal", ch, UserID[c], c, type \o "_response")}
                ELSE calls
    /\ frames' = frames + 1
    /\ UNCHANGED <<clients, userIndex, broadcast, voiceState, userVoice, UserID,
                   send, closeCount, rpc, pending, wpc, hubState, leaves,
                   unregSeen, cleaned>>
    /\ UNCHANGED offHub

\* Raw frames that carry no well-formed voice operation: text that is not
\* JSON, an envelope whose op is none of the handled ones, and a voice op
\* whose payload `d` is absent or of the wrong JSON type.
RawFrames ==
    {[json |-> FALSE, op |-> "", d |-> "absent"],
     [json |-> TRUE, op |-> "UNKNOWN", d |-> "object"],
     [json |-> TRUE, op |-> "VOICE_STATE_UPDATE", d |-> "mistyped"],
     [json |-> TRUE, op |-> "VOICE_SIGNAL", d |-> "absent"]}

\* A decoder that leaves the payload struct at its zero value when `d` cannot
\* be decoded, and goes on to the handler's body.
DispatchZeroValue(f) ==
    IF ~f.json THEN "drop"
    ELSE IF f.op = "VOICE_STATE_UPDATE" THEN "leave"
    ELSE IF f.op = "VOICE_SIGNAL" THEN "signal"
    ELSE "drop"

\* handleMessage and the json.Unmarshal at the head of the two voice
\* handlers: what becomes of the raw frame f.
Dispatch(f) ==
    IF ~f.json THEN "drop"
    ELSE IF f.op = "VOICE_STATE_UPDATE"
         THEN IF f.d \in {"absent", "mistyped"} THEN "drop" ELSE "leave"
    ELSE IF f.op = "VOICE_SIGNAL"
         THEN IF f.d \in {"absent", "mistyped"} THEN "drop" ELSE "signal"
    ELSE "drop"

\* readPump hands handleMessage the raw frame f, which is logged or dropped;
\* a frame whose payload decodes to the zero value is a leave, or a signal
\* with no channel and no type.
HandleRawFrame(c, f) ==
    IF Dispatch(f) = "drop"
    THEN /\ CanHandle(c)
         /\ frames' = frames + 1
         /\ UNCHANGED <<clients, userIndex, broadcast, voiceState, userVoice,
                        UserID, send, closeCount, rpc, pending, wpc, hubState,
                        calls, leaves, unregSeen, cleaned>>
         /\ UNCHANGED offHub
    ELSE IF Dispatch(f) = "leave"
    THEN HandleVoiceStateLeave(c)
    ELSE HandleVoiceSignal(c, "", "")

\* Hub.Broadcast called by a handler: `h.broadcast <- evt` on the buffered
\* channel; the handler returns and readPump reads the next frame.
Broadcast(c) ==
    /\ Alive
    /\ rpc[c] = "bcast"
    /\ Len(broadcast) < BroadcastCap
    /\ broadcast' = Append(broadcast, pending[c])
    /\ pending' = [pending EXCEPT ![c] = NoEvent]
    /\ rpc' = [rpc EXCEPT ![c] = "read"]
    /\ UNCHANGED <<clients, userIndex, voiceState, userVoice, UserID, send,
                   closeCount, wpc, hubState, calls, leaves, frames, unregSeen, cleaned>>
    /\ UNCHANGED offHub

\* ------------------------------------------------------ the Run goroutine
\* The goroutines standing in `c.hub.unregister <- c` for connection c: its
\* readPump (0), or the call goroutine i whose sendEvent evicted c.
Submitters(c) ==
    (IF rpc[c] = "unreg" THEN {0} ELSE {})
    \cup {g.id : g \in {x \in calls : x.conn = c /\ x.phase = "unreg"}}

\* The sender Run received from goes on: readPump closes the socket and ends,
\* a call goroutine ends.
Release(c, who) ==
    IF who = 0
    THEN /\ rpc' = [rpc EXCEPT ![c] = "done"]
         /\ UNCHANGED pending
    ELSE UNCHANGED <<rpc, pending>>

ReleasedCalls(who) ==
    IF who = 0 THEN calls ELSE {g \in calls : ~(g.id = who /\ g.phase = "unreg")}

\* Run, case c := <-h.unregister, after the receive.
UnregisterCase(c) ==
    /\ unregSeen' = [unregSeen EXCEPT ![c] = IF @ < 2 THEN @ + 1 ELSE @]
    /\ IF c \notin clients
       THEN UNCHANGED <<clients, userIndex, voiceState, userVoice, send,
                       closeCount, hubState, cleaned, leaves>>
       ELSE /\ clients' = clients \ {c}
            /\ userIndex' = removeFromUserIndex(userIndex, c, UserID[c])
            /\ IF IsClosed(closeCount, c)
               THEN \* close(c.send) on a closed channel: Run panics.
                    /\ closeCount' = [closeCount EXCEPT ![c] = @ + 1]
                    /\ hubState' = "panicked"
                    /\ UNCHANGED <<voiceState, userVoice, send, cleaned, leaves>>
               ELSE LET cc1 == [closeCount EXCEPT ![c] = 1]
                        r   == LeaveVoiceChannel(voiceState, userVoice, UserID[c])
                        evt == VoiceStateUpdate(UserID[c], Null)
                    IN  /\ cleaned' = [cleaned EXCEPT ![c] = TRUE]
                        /\ voiceState' = r.voiceState
                        /\ userVoice' = r.userVoice
                        /\ IF r.was
                           THEN /\ leaves' =
                                     IF MediaConfigured
                                     THEN leaves \cup
                                            {Call(0, "leave", r.channelID, UserID[c], c, "disconnect")}
                                     ELSE leaves
                                /\ \E o \in FanOut(send, cc1, clients \ {c}, evt) :
                                    /\ send' = o.send
                                    /\ closeCount' = o.closeCount
                                    /\ hubState' = o.hub
                           ELSE /\ closeCount' = cc1
                                /\ UNCHANGED <<send, hubState, leaves>>
    /\ UNCHANGED <<broadcast, UserID, wpc, frames>>

\* Run receives the unregister of c from its readPump or from a call goroutine.
RunUnregister(c) ==
    /\ hubState = "running"
    /\ \E who \in Submitters(c) :
        /\ Release(c, who)
        /\ calls' = ReleasedCalls(who)
        /\ UnregisterCase(c)
    /\ UNCHANGED offHub

\* Run, case evt := <-h.broadcast.
RunBroadcast ==
    /\ hubState = "running"
    /\ broadcast # <<>>
    /\ broadcast' = Tail(broadcast)
    /\ \E o \in FanOut(send, closeCount, clients, Head(broadcast)) :
        /\ send' = o.send
        /\ closeCount' = o.closeCount
        /\ hubState' = o.hub
    /\ UNCHANGED <<clients, userIndex, voiceState, userVoice, UserID, rpc, pending,
                   wpc, calls, leaves, frames, unregSeen, cleaned>>
    /\ UNCHANGED offHub

\* ----------------------------------------------- media-call goroutines
\* The relay with the response handed to another connection of the same user.
RelayToOtherOfUser(g) ==
    LET others == {d \in Conns : d # g.conn /\ UserID[d] = g.u}
    IN  IF others = {} THEN g.conn ELSE CHOOSE d \in others : TRUE

\* The connection a call goroutine relays the response to: the receiver c the
\* goroutine's closure captured, i.e. the connection whose frame spawned it.
RelayTo(g) == g.conn

\* The relay with a failed call answered to the client like a successful one.
MediaDoneErrorRelayed(g, hasResp) ==
    /\ Alive
    /\ g \in calls
    /\ g.phase = "inflight"
    /\ IF IsClosed(closeCount, RelayTo(g))
       THEN /\ calls' = calls \ {g}
            /\ send' = send
       ELSE IF Len(send[RelayTo(g)]) < QueueCap
       THEN /\ calls' = calls \ {g}
            /\ send' = [send EXCEPT ![RelayTo(g)] =
                          Append(@, VoiceSignalResponse(g.kind, g.ch))]
       ELSE /\ calls' = (calls \ {g}) \cup {AtPhase(g, "closing")}
            /\ send' = send
    /\ UNCHANGED <<clients, userIndex, broadcast, voiceState, userVoice, UserID,
                   closeCount, rpc, pending, wpc, hubState, leaves, frames,
                   unregSeen, cleaned>>
    /\ UNCHANGED offHub

\* The media service answers the join or signal call g.  An error or an empty body ends
\* the goroutine; a response goes to the originating connection's sendEvent:
\* the select either queues it, panics on a closed channel (recovered by the
\* goroutine's deferred recover), or falls to the default branch.
MediaDone(g, hasResp) ==
    /\ Alive
    /\ g \in calls
    /\ g.phase = "inflight"
    /\ IF ~hasResp \/ IsClosed(closeCount, RelayTo(g))
       THEN /\ calls' = calls \ {g}
            /\ send' = send
       ELSE IF Len(send[RelayTo(g)]) < QueueCap
       THEN /\ calls' = calls \ {g}
            /\ send' = [send EXCEPT ![RelayTo(g)] =
                          Append(@, VoiceSignalResponse(g.kind, g.ch))]
       ELSE /\ calls' = (calls \ {g}) \cup {AtPhase(g, "closing")}
            /\ send' = send
    /\ UNCHANGED <<clients, userIndex, broadcast, voiceState, userVoice, UserID,
                   closeCount, rpc, pending, wpc, hubState, leaves, frames,
                   unregSeen, cleaned>>
    /\ UNCHANGED offHub

\* sendEvent's default branch on a call goroutine: close(c.send), which panics
\* (recovered) when the channel is closed already, then `c.hub.unregister <- c`.
EvictClose(g) ==
    /\ Alive
    /\ g \in calls
    /\ g.phase = "closing"
    /\ closeCount' = [closeCount EXCEPT ![g.conn] = @ + 1]
    /\ calls' = IF IsClosed(closeCount, g.conn)
                THEN calls \ {g}
                ELSE (calls \ {g}) \cup {AtPhase(g, "unreg")}
    /\ UNCHANGED <<clients, userIndex, broadcast, voiceState, userVoice, UserID,
                   send, rpc, pending, wpc, hubState, leaves, frames, unregSeen,
                   cleaned>>
    /\ UNCHANGED offHub

\* Some live call goroutine is answered, with or without a response body.
MediaAnswer == \E g \in calls, r \in BOOLEAN : MediaDone(g, r)

\* Some call goroutine standing in sendEvent's default branch closes the channel.
Evict == \E g \in calls : EvictClose(g)

\* ------------------------------------------------------------------ Next
Next ==
    \/ \E c \in Conns, u \in Users : ServeWS(c, u)
    \/ \E c \in Conns : ReadError(c)
    \/ \E c \in Conns : WritePump(c)
    \/ \E c \in Conns, ch \in Channels : HandleVoiceStateJoin(c, ch)
    \/ \E c \in Conns : HandleVoiceStateLeave(c)
    \/ \E c \in Conns, ch \in Channels, type \in SignalTypes : HandleVoiceSignal(c, ch, type)
    \/ \E c \in Conns, f \in RawFrames : HandleRawFrame(c, f)
    \/ \E c \in Conns : Broadcast(c)
    \/ \E c \in Conns : RunUnregister(c)
    \/ RunBroadcast
    \/ MediaAnswer
    \/ Evict

Spec == Init /\ [][Next]_vars

\* The hub with its goroutines scheduled fairly: Run takes each case of its
\* select that stays ready, a writePump goes on while it can (every write
\* has the writeWait deadline), a handler standing at h.Broadcast goes on
\* once the channel has room, a media call returns (the HTTP client has a
\* timeout) and a goroutine in sendEvent's default branch goes on.  Clients
\* connect, send frames and disconnect as they please.
Fairness ==
    /\ \A c \in Conns : WF_vars(RunUnregister(c))
    /\ WF_vars(RunBroadcast)
    /\ \A c \in Conns : WF_vars(WritePump(c))
    /\ \A c \in Conns : WF_vars(Broadcast(c))
    /\ WF_vars(MediaAnswer)
    /\ WF_vars(Evict)

SpecFair == Spec /\ Fairness

\* ============================================ SendToUser and the registry
\* SendToUser is exported and runs on its caller's goroutine, beside Run:
\* `for _, c := range h.userIndex[userID] { c.sendEvent(evt) }`.
DirectEvent(u) == [t |-> "DIRECT", user |-> u, channel |-> "", kind |-> ""]

\* What everything but the registry, the queues and the pumps does in a step
\* of SendToUser or of the connection lifecycle around it.
offRegistry == <<broadcast, voiceState, userVoice, pending, calls, leaves,
                 frames, sfuVars, wire, meshVars>>

\* The range statement evaluates h.userIndex[userID] once, without the lock
\* or channel that would order it with Run's writes.
SendToUserStart(u) ==
    /\ Alive
    /\ sendToUser.pc = "idle"
    /\ sendToUser' = [pc |-> "range", u |-> u, i |-> 1,
                      snap |-> MapGet(userIndex, u, <<>>), conn |-> 0]
    /\ UNCHANGED <<clients, userIndex, UserID, send, closeCount, rpc, wpc,
                   hubState, unregSeen, cleaned, offRegistry>>

\* The element the loop reads at index i.  removeFromUserIndex filters into
\* `conns[:0]`, the array the ranged slice lives in, and append writes past
\* the filtered length: a read that races with them returns the element of
\* the slice as ranged or the one Run has put in its place.
RangedElement ==
    LET cur == MapGet(userIndex, sendToUser.u, <<>>)
    IN  {sendToUser.snap[sendToUser.i]}
        \cup (IF sendToUser.i <= Len(cur) THEN {cur[sendToUser.i]} ELSE {})

\* One iteration: c.sendEvent(evt) on the caller's goroutine.  The send on a
\* closed channel panics the caller, who may or may not recover; on a full
\* queue sendEvent closes it and waits in `c.hub.unregister <- c`.
SendToUserNext ==
    /\ Alive
    /\ sendToUser.pc = "range"
    /\ sendToUser.i <= Len(sendToUser.snap)
    /\ \E d \in RangedElement :
          IF IsClosed(closeCount, d)
          THEN /\ sendToUser' = NoSendToUser
               /\ hubState' \in {hubState, "panicked"}
               /\ UNCHANGED <<send, closeCount>>
          ELSE IF Len(send[d]) < QueueCap
          THEN /\ send' = [send EXCEPT ![d] = Append(@, DirectEvent(sendToUser.u))]
               /\ sendToUser' = [sendToUser EXCEPT !.i = @ + 1]
               /\ UNCHANGED <<closeCount, hubState>>
          ELSE /\ closeCount' = [closeCount EXCEPT ![d] = @ + 1]
               /\ sendToUser' = [sendToUser EXCEPT !.pc = "unreg", !.conn = d]
               /\ UNCHANGED <<send, hubState>>
    /\ UNCHANGED <<clients, userIndex, UserID, rpc, wpc, unregSeen, cleaned,
                   offRegistry>>

\* The loop is through.
SendToUserReturn ==
    /\ Alive
    /\ sendToUser.pc = "range"
    /\ sendToUser.i > Len(sendToUser.snap)
    /\ sendToUser' = NoSendToUser
    /\ UNCHANGED <<clients, userIndex, UserID, send, closeCount, rpc, wpc,
                   hubState, unregSeen, cleaned, offRegistry>>

\* Run receives the unregister submitted from inside SendToUser, whose loop
\* then goes on.
RunUnregisterSender ==
    /\ hubState = "running"
    /\ sendToUser.pc = "unreg"
    /\ sendToUser' = [sendToUser EXCEPT !.pc = "range", !.i = @ + 1, !.conn = 0]
    /\ UnregisterCase(sendToUser.conn)
    /\ UNCHANGED <<rpc, pending, calls, sfuVars, wire, meshVars>>

NextRegistry ==
    \/ \E c \in Conns, u \in Users : ServeWS(c, u)
    \/ \E c \in Conns : ReadError(c)
    \/ \E c \in Conns : WritePump(c)
    \/ \E c \in Conns : RunUnregister(c)
    \/ \E u \in Users : SendToUserStart(u)
    \/ SendToUserNext
    \/ SendToUserReturn
    \/ RunUnregisterSender

SpecRegistry == Init /\ [][NextRegistry]_vars

\* ================================================================ the SFU
\* Objects are rows of the tables, numbered in creation order; 0 is null.
\* mediasoup gives producers and consumers fresh UUIDs: the two id spaces
\* are disjoint.
ProducerId(i) == <<"producer", i>>

ConsumerId(j) == <<"consumer", j>>

\* new Room(channelId, router): no peers, router open.
Room(ch) == [channelId |-> ch, peers |-> EmptyMap, closed |-> FALSE]

\* new Peer(userId): no transports, no producers, no consumers.  The two Maps
\* are kept as their key sets.
Peer(u) ==
    [userId |-> u, sendTransport |-> 0, recvTransport |-> 0,
     producers |-> {}, consumers |-> {}]

\* A transport created on room r's router by a join for peer p.
Transport(r, p, dir) == [room |-> r, peer |-> p, dir |-> dir, closed |-> FALSE]

\* Map.has on a key set.
MapHas(keys, k) == k \in keys

\* The object tables as one value, for the synchronous cascades.
SfuState ==
    [peerTab |-> peerTab, transportTab |-> transportTab,
     producerTab |-> producerTab, consumerTab |-> consumerTab]

SetSfuState(S) ==
    /\ peerTab' = S.peerTab
    /\ transportTab' = S.transportTab
    /\ producerTab' = S.producerTab
    /\ consumerTab' = S.consumerTab

\* transport.close() on each transport of T (null and closed ones are
\* no-ops): mediasoup closes the transport's producers and consumers and emits
\* 'transportclose' on each synchronously; the handlers registered in
\* Room.signal delete them from their Peer's producers / consumers Map.
CloseTransports(T, S) ==
    LET live == {t \in T : t # 0 /\ ~S.transportTab[t].closed}
        ps == {i \in DOMAIN S.producerTab :
                  S.producerTab[i].transport \in live /\ ~S.producerTab[i].closed}
        cs == {j \in DOMAIN S.consumerTab :
                  S.consumerTab[j].transport \in live /\ ~S.consumerTab[j].closed}
    IN  [transportTab |->
             [t \in DOMAIN S.transportTab |->
                 IF t \in live THEN [S.transportTab[t] EXCEPT !.closed = TRUE]
                 ELSE S.transportTab[t]],
         producerTab |->
             [i \in DOMAIN S.producerTab |->
                 IF i \in ps THEN [S.producerTab[i] EXCEPT !.closed = TRUE]
                 ELSE S.producerTab[i]],
         consumerTab |->
             [j \in DOMAIN S.consumerTab |->
                 IF j \in cs THEN [S.consumerTab[j] EXCEPT !.closed = TRUE]
                 ELSE S.consumerTab[j]],
         peerTab |->
             [k \in DOMAIN S.peerTab |->
                 [S.peerTab[k] EXCEPT
                    !.producers = @ \ {ProducerId(i) : i \in {x \in ps : S.producerTab[x].peer = k}},
                    !.consumers = @ \ {ConsumerId(j) : j \in {x \in cs : S.consumerTab[x].peer = k}}]]]

\* Peer.close(): close both transports.
PeerClose(p, S) ==
    CloseTransports({S.peerTab[p].sendTransport, S.peerTab[p].recvTransport}, S)

\* Room.close(): router.close() closes every transport created on the router.
RoomClose(r, S) ==
    CloseTransports({t \in DOMAIN S.transportTab : S.transportTab[t].room = r}, S)

\* Room.removePeer reporting whether the room was empty before the removal.
RemovePeerEmptyBefore(r, u, rt, S) ==
    LET has == u \in DOMAIN rt[r].peers
    IN  [roomTab |-> IF has THEN [rt EXCEPT ![r].peers = MapDelete(@, u)] ELSE rt,
         S |-> IF has THEN PeerClose(rt[r].peers[u], S) ELSE S,
         empty |-> DOMAIN rt[r].peers = {}]

\* Room.removePeer: close and delete the Peer if there is one; report whether
\* the room is empty.
RemovePeer(r, u, rt, S) ==
    LET has == u \in DOMAIN rt[r].peers
        rt1 == IF has THEN [rt EXCEPT ![r].peers = MapDelete(@, u)] ELSE rt
    IN  [roomTab |-> rt1,
         S |-> IF has THEN PeerClose(rt[r].peers[u], S) ELSE S,
         empty |-> DOMAIN rt1[r].peers = {}]

\* Room.join up to its first await: find or create the Peer, close the
\* transports it holds.
RoomJoinEnter(r, u, rt, S) ==
    LET known == u \in DOMAIN rt[r].peers
        p   == IF known THEN rt[r].peers[u] ELSE Len(S.peerTab) + 1
        S0  == IF known THEN S ELSE [S EXCEPT !.peerTab = Append(@, Peer(u))]
        rt1 == IF known THEN rt ELSE [rt EXCEPT ![r].peers = MapPut(@, u, p)]
    IN  [roomTab |-> rt1, peer |-> p, S |-> PeerClose(p, S0)]

\* --------------------------------------------------------- SFU requests
\* Requests the media service receives in a run, and handlers suspended at
\* an await at one time.
MaxRequests == 6

MaxInflight == 2

\* A request handler suspended at an await, with the locals it holds: the
\* Room and Peer it looked up, the transport it called, and for consume the
\* position of its two Map iterators and the descriptors collected so far.
Request(id, op, ch, u, pc) ==
    [id |-> id, op |-> op, ch |-> ch, u |-> u, pc |-> pc, room |-> 0,
     peer |-> 0, transport |-> 0, cur |-> 0, last |-> 0, result |-> <<>>]

Response(q, status, body) ==
    [id |-> q.id, op |-> q.op, ch |-> q.ch, u |-> q.u, status |-> status,
     body |-> body]

CanRequest == nReq < MaxRequests /\ Cardinality(reqs) < MaxInflight

\* POST /rooms/:channel_id/join, up to its first await.  With the room in the
\* registry the handler runs on into Room.join and stops at
\* createWebRtcTransport; without it the handler stops at getWorker /
\* Room.create, the registry still unchanged.
JoinRequest(ch, u) ==
    /\ CanRequest
    /\ nReq' = nReq + 1
    /\ LET q == Request(nReq + 1, "join", ch, u, "creating")
       IN  IF ch \in DOMAIN rooms
           THEN LET e == RoomJoinEnter(rooms[ch], u, roomTab, SfuState)
                IN  /\ roomTab' = e.roomTab
                    /\ SetSfuState(e.S)
                    /\ reqs' = reqs \cup {[q EXCEPT !.pc = "transports",
                                                    !.room = rooms[ch],
                                                    !.peer = e.peer]}
           ELSE /\ reqs' = reqs \cup {q}
                /\ UNCHANGED <<roomTab, peerTab, transportTab, producerTab,
                               consumerTab>>
    /\ UNCHANGED <<rooms, lastResp>>

\* The join handler resumes after Room.create: rooms.set(channelId, room),
\* whatever the registry holds by now, then Room.join up to its first await.
JoinRoomCreated(q) ==
    /\ q \in reqs
    /\ q.pc = "creating"
    /\ LET r == Len(roomTab) + 1
           e == RoomJoinEnter(r, q.u, Append(roomTab, Room(q.ch)), SfuState)
       IN  /\ rooms' = MapPut(rooms, q.ch, r)
           /\ roomTab' = e.roomTab
           /\ SetSfuState(e.S)
           /\ reqs' = (reqs \ {q}) \cup {[q EXCEPT !.pc = "transports",
                                                    !.room = r,
                                                    !.peer = e.peer]}
    /\ UNCHANGED <<nReq, lastResp>>

\* Room.join resumes after its two createWebRtcTransport awaits (the first
\* transport is referenced by nothing until both exist, so the two awaits are
\* one step): on a closed router the call rejects and the handler answers 500;
\* otherwise both transports are assigned to the Peer the handler holds.
JoinTransportsCreated(q) ==
    /\ q \in reqs
    /\ q.pc = "transports"
    /\ reqs' = reqs \ {q}
    /\ IF roomTab[q.room].closed
       THEN /\ lastResp' = Response(q, 500, <<>>)
            /\ UNCHANGED <<peerTab, transportTab>>
       ELSE LET t == Len(transportTab) + 1
            IN  /\ transportTab' = transportTab \o
                                      <<Transport(q.room, q.peer, "send"),
                                        Transport(q.room, q.peer, "recv")>>
                /\ peerTab' = [peerTab EXCEPT ![q.peer].sendTransport = t,
                                              ![q.peer].recvTransport = t + 1]
                /\ lastResp' = Response(q, 200, <<>>)
    /\ UNCHANGED <<rooms, roomTab, producerTab, consumerTab, nReq>>

\* The leave handler's effect on the registry rs, the rooms rt and the
\* objects S: removePeer, and for an emptied room close and rooms.delete.
LeaveEffect(ch, u, rs, rt, S) ==
    IF ch \notin DOMAIN rs
    THEN [rooms |-> rs, roomTab |-> rt, S |-> S]
    ELSE LET r  == rs[ch]
             rm == RemovePeer(r, u, rt, S)
         IN  IF rm.empty
             THEN [rooms |-> MapDelete(rs, ch),
                   roomTab |-> [rm.roomTab EXCEPT ![r].closed = TRUE],
                   S |-> RoomClose(r, rm.S)]
             ELSE [rooms |-> rs, roomTab |-> rm.roomTab, S |-> rm.S]

\* DELETE /rooms/:channel_id/leave: one synchronous handler.
LeaveRequest(ch, u) ==
    /\ nReq < MaxRequests
    /\ nReq' = nReq + 1
    /\ LET e == LeaveEffect(ch, u, rooms, roomTab, SfuState)
       IN  /\ rooms' = e.rooms
           /\ roomTab' = e.roomTab
           /\ SetSfuState(e.S)
    /\ lastResp' = Response(Request(nReq + 1, "leave", ch, u, ""), 204, <<>>)
    /\ UNCHANGED reqs

\* POST /rooms/:channel_id/signal up to the dispatch in Room.signal: 404 when
\* the room is not in the registry or the user is not a Peer of it.
SignalLookup(ch, u) ==
    IF ch \notin DOMAIN rooms THEN [status |-> 404, room |-> 0, peer |-> 0]
    ELSE IF u \notin DOMAIN roomTab[rooms[ch]].peers
         THEN [status |-> 404, room |-> rooms[ch], peer |-> 0]
         ELSE [status |-> 0, room |-> rooms[ch],
               peer |-> roomTab[rooms[ch]].peers[u]]

\* `peer.sendTransport!.produce(...)` / `peer.recvTransport!.consume(...)` can
\* be called: the field is not null (else a TypeError) and the transport is
\* open (else mediasoup rejects); both end in the handler's 500.
Callable(t) == t # 0 /\ ~transportTab[t].closed

\* signal 'produce' up to its await.
ProduceRequest(ch, u) ==
    /\ CanRequest
    /\ nReq' = nReq + 1
    /\ LET q == Request(nReq + 1, "produce", ch, u, "producing")
           l == SignalLookup(ch, u)
       IN  IF l.status # 0
           THEN lastResp' = Response(q, l.status, <<>>) /\ reqs' = reqs
           ELSE IF ~Callable(peerTab[l.peer].sendTransport)
           THEN lastResp' = Response(q, 500, <<>>) /\ reqs' = reqs
           ELSE /\ reqs' = reqs \cup
                             {[q EXCEPT !.room = l.room, !.peer = l.peer,
                                        !.transport = peerTab[l.peer].sendTransport]}
                /\ lastResp' = lastResp
    /\ UNCHANGED <<rooms, roomTab, peerTab, transportTab, producerTab,
                   consumerTab>>

\* signal 'produce' resumes: peer.producers.set(producer.id, producer) and the
\* 'transportclose' handler.  When the transport was closed during the await
\* the call either rejects, or resolves with a producer the worker has closed
\* already and on which 'transportclose' is never emitted.
ProduceDone(q, rejected) ==
    /\ q \in reqs
    /\ q.pc = "producing"
    /\ rejected => transportTab[q.transport].closed
    /\ reqs' = reqs \ {q}
    /\ IF rejected
       THEN /\ lastResp' = Response(q, 500, <<>>)
            /\ UNCHANGED <<peerTab, producerTab>>
       ELSE LET i == Len(producerTab) + 1
            IN  /\ producerTab' = Append(producerTab,
                                      [transport |-> q.transport, peer |-> q.peer,
                                       closed |-> transportTab[q.transport].closed])
                /\ peerTab' = [peerTab EXCEPT ![q.peer].producers =
                                                  @ \cup {ProducerId(i)}]
                /\ lastResp' = Response(q, 200, <<ProducerId(i)>>)
    /\ UNCHANGED <<rooms, roomTab, transportTab, consumerTab, nReq>>

\* router.canConsume for the producer i on room r's router: the router knows
\* the producer (clients declare the router's own capabilities).
CanConsume(r, i) ==
    transportTab[producerTab[i].transport].room = r /\ ~producerTab[i].closed

\* The two `continue` tests of the consume loop for producer i: already in
\* peer.consumers (a Map keyed by consumer.id, asked for a producer id), or
\* not consumable.
Skipped(q, i, pt) ==
    MapHas(pt[q.peer].consumers, ProducerId(i)) \/ ~CanConsume(q.room, i)

Min(S) == CHOOSE x \in S : \A y \in S : x <= y

\* The entries of the Peer p's producers Map after position `last` that the
\* loop does not skip.  Maps iterate in insertion order, which is creation
\* order for peers and producers alike, and see insertions and deletions made
\* while a handler is suspended.
Wanted(q, p, last, pt) ==
    {i \in DOMAIN producerTab :
        /\ i > last
        /\ MapHas(pt[p].producers, ProducerId(i))
        /\ ~Skipped(q, i, pt)}

\* consume's nested loops run from the iterator position (q.cur, q.last) to
\* the next producer to consume, if any.
ScanFrom(q, pt) ==
    LET inner == IF q.cur = 0 THEN {} ELSE Wanted(q, q.cur, q.last, pt)
        later == {p \in {roomTab[q.room].peers[v] : v \in DOMAIN roomTab[q.room].peers} :
                     /\ p > q.cur
                     /\ pt[p].userId # q.u
                     /\ Wanted(q, p, 0, pt) # {}}
    IN  IF inner # {}
        THEN [found |-> TRUE, cur |-> q.cur, last |-> Min(inner)]
        ELSE IF later # {}
        THEN [found |-> TRUE, cur |-> Min(later),
              last |-> Min(Wanted(q, Min(later), 0, pt))]
        ELSE [found |-> FALSE, cur |-> q.cur, last |-> q.last]

\* The consume handler q runs its loops on from its iterator position: to the
\* end (answer 200 with the collected descriptors), or to the next
\* `await peer.recvTransport!.consume(...)`; other is the set of the other
\* suspended handlers.
ConsumeAdvance(q, other, pt) ==
    LET n == ScanFrom(q, pt)
        t == pt[q.peer].recvTransport
    IN  IF ~n.found
        THEN reqs' = other /\ lastResp' = Response(q, 200, q.result)
        ELSE IF ~Callable(t)
        THEN reqs' = other /\ lastResp' = Response(q, 500, <<>>)
        ELSE /\ reqs' = other \cup {[q EXCEPT !.cur = n.cur, !.last = n.last,
                                               !.transport = t]}
             /\ lastResp' = lastResp

\* signal 'consume' up to its first await, or to its answer when the loops
\* find nothing to consume.
ConsumeRequest(ch, u) ==
    /\ CanRequest
    /\ nReq' = nReq + 1
    /\ LET q == Request(nReq + 1, "consume", ch, u, "consuming")
           l == SignalLookup(ch, u)
       IN  IF l.status # 0
           THEN lastResp' = Response(q, l.status, <<>>) /\ reqs' = reqs
           ELSE ConsumeAdvance([q EXCEPT !.room = l.room, !.peer = l.peer],
                               reqs, peerTab)
    /\ UNCHANGED <<rooms, roomTab, peerTab, transportTab, producerTab,
                   consumerTab>>

\* signal 'consume' resumes after `await peer.recvTransport!.consume(...)`:
\* peer.consumers.set(consumer.id, consumer), the two close handlers, the
\* descriptor pushed, and the loops run on.  The consumer is created paused.
\* When the transport was closed during the await the call either rejects
\* (answer 500), or resolves with a consumer the worker has closed already.
ConsumeDone(q, rejected) ==
    /\ q \in reqs
    /\ q.pc = "consuming"
    /\ rejected => transportTab[q.transport].closed
    /\ IF rejected
       THEN /\ reqs' = reqs \ {q}
            /\ lastResp' = Response(q, 500, <<>>)
            /\ UNCHANGED <<peerTab, consumerTab>>
       ELSE LET j  == Len(consumerTab) + 1
                pt == [peerTab EXCEPT ![q.peer].consumers = @ \cup {ConsumerId(j)}]
                d  == [id |-> ConsumerId(j), producerId |-> ProducerId(q.last),
                       producerUserId |-> peerTab[q.cur].userId]
            IN  /\ consumerTab' = Append(consumerTab,
                                      [transport |-> q.transport, peer |-> q.peer,
                                       producer |-> q.last, paused |-> TRUE,
                                       closed |-> transportTab[q.transport].closed])
                /\ peerTab' = pt
                /\ ConsumeAdvance([q EXCEPT !.result = Append(@, d)],
                                  reqs \ {q}, pt)
    /\ UNCHANGED <<rooms, roomTab, transportTab, producerTab, nReq>>

\* The worker has closed the consumer j, or its source producer, whether or
\* not the Consumer object has been told yet.
ClosedInWorker(j) ==
    consumerTab[j].closed \/ producerTab[consumerTab[j].producer].closed

\* resume-consumer looking the consumer up among all consumers of the service.
ResumeRequestAnyOwner(ch, u, j) ==
    /\ nReq < MaxRequests
    /\ nReq' = nReq + 1
    /\ LET q == Request(nReq + 1, "resume-consumer", ch, u, "")
           l == SignalLookup(ch, u)
       IN  IF l.status # 0
           THEN lastResp' = Response(q, l.status, <<>>) /\ consumerTab' = consumerTab
           ELSE IF ClosedInWorker(j)
           THEN lastResp' = Response(q, 500, <<>>) /\ consumerTab' = consumerTab
           ELSE /\ consumerTab' = [consumerTab EXCEPT ![j].paused = FALSE]
                /\ lastResp' = Response(q, 200, <<>>)
    /\ UNCHANGED <<rooms, roomTab, peerTab, transportTab, producerTab, reqs>>

\* signal 'resume-consumer' naming ConsumerId(j): an id not in peer.consumers
\* throws a plain Error (500); consumer.resume() is rejected by the worker for
\* a consumer it has closed.
ResumeRequest(ch, u, j) ==
    /\ nReq < MaxRequests
    /\ nReq' = nReq + 1
    /\ LET q == Request(nReq + 1, "resume-consumer", ch, u, "")
           l == SignalLookup(ch, u)
       IN  IF l.status # 0
           THEN lastResp' = Response(q, l.status, <<>>) /\ consumerTab' = consumerTab
           ELSE IF ~MapHas(peerTab[l.peer].consumers, ConsumerId(j)) \/ ClosedInWorker(j)
           THEN lastResp' = Response(q, 500, <<>>) /\ consumerTab' = consumerTab
           ELSE /\ consumerTab' = [consumerTab EXCEPT ![j].paused = FALSE]
                /\ lastResp' = Response(q, 200, <<>>)
    /\ UNCHANGED <<rooms, roomTab, peerTab, transportTab, producerTab, reqs>>

\* A signal whose type is none of the five: 404 without the room, else 400.
UnknownTypeRequest(ch, u) ==
    /\ nReq < MaxRequests
    /\ nReq' = nReq + 1
    /\ lastResp' = Response(Request(nReq + 1, "unknown", ch, u, ""),
                            IF ch \in DOMAIN rooms THEN 400 ELSE 404, <<>>)
    /\ UNCHANGED <<rooms, roomTab, peerTab, transportTab, producerTab,
                   consumerTab, reqs>>

\* The worker's 'producerclose' notification reaches the open consumer j of
\* a closed producer: the consumer closes and its handler deletes it from
\* the consumers Map of its Peer.
ProducerCloseNotify(j) ==
    /\ j \in DOMAIN consumerTab
    /\ ~consumerTab[j].closed
    /\ producerTab[consumerTab[j].producer].closed
    /\ consumerTab' = [consumerTab EXCEPT ![j].closed = TRUE]
    /\ peerTab' = [peerTab EXCEPT ![consumerTab[j].peer].consumers =
                                      @ \ {ConsumerId(j)}]
    /\ UNCHANGED <<rooms, roomTab, transportTab, producerTab, reqs, nReq,
                   lastResp>>

\* ------------------------------------------------- the SFU on its own
\* The media service serving any requests for one channel; the user of the
\* first request is named u1.
SfuChannels == {"general"}

SfuUsers(n) == IF n = 0 THEN {UserOrder[1]} ELSE Users

SfuJoin == \E ch \in SfuChannels, u \in SfuUsers(nReq) :
              JoinRequest(ch, u) /\ UNCHANGED offSfu

SfuJoinRoomCreated == \E q \in reqs : JoinRoomCreated(q) /\ UNCHANGED offSfu

SfuJoinTransportsCreated ==
    \E q \in reqs : JoinTransportsCreated(q) /\ UNCHANGED offSfu

SfuLeave == \E ch \in SfuChannels, u \in SfuUsers(nReq) :
               LeaveRequest(ch, u) /\ UNCHANGED offSfu

SfuProduce == \E ch \in SfuChannels, u \in SfuUsers(nReq) :
                 ProduceRequest(ch, u) /\ UNCHANGED offSfu

SfuProduceDone == \E q \in reqs, rejected \in BOOLEAN :
                     ProduceDone(q, rejected) /\ UNCHANGED offSfu

SfuConsume == \E ch \in SfuChannels, u \in SfuUsers(nReq) :
                 ConsumeRequest(ch, u) /\ UNCHANGED offSfu

SfuConsumeDone == \E q \in reqs, rejected \in BOOLEAN :
                     ConsumeDone(q, rejected) /\ UNCHANGED offSfu

SfuResume == \E ch \in SfuChannels, u \in SfuUsers(nReq), j \in DOMAIN consumerTab :
                ResumeRequest(ch, u, j) /\ UNCHANGED offSfu

SfuUnknownType == \E ch \in SfuChannels, u \in SfuUsers(nReq) :
                     UnknownTypeRequest(ch, u) /\ UNCHANGED offSfu

SfuProducerCloseNotify ==
    \E j \in DOMAIN consumerTab : ProducerCloseNotify(j) /\ UNCHANGED offSfu

NextSfu ==
    \/ SfuJoin
    \/ SfuJoinRoomCreated
    \/ SfuJoinTransportsCreated
    \/ SfuLeave
    \/ SfuProduce
    \/ SfuProduceDone
    \/ SfuConsume
    \/ SfuConsumeDone
    \/ SfuResume
    \/ SfuUnknownType
    \/ SfuProducerCloseNotify

SpecSfu == Init /\ [][NextSfu]_vars

\* ========================================== the hub and the SFU together
\* The voice store and the media calls of handleVoiceStateUpdate and of Run's
\* unregister case, with the media service serving the calls in whatever
\* order they reach it.  Connections, queues and broadcasts are those of Spec
\* and play no part here; a call belongs to a user.
GwMaxFrames == 3

GwChannels == {"general", "other"}

GwUsers(n) == IF n = 0 THEN {UserOrder[1]} ELSE Users

\* handleVoiceStateUpdate with a channel id: the store join and the calls.
GwVoiceStateJoin(u, ch) ==
    /\ frames < GwMaxFrames
    /\ frames' = frames + 1
    /\ LET r == JoinVoiceChannel(voiceState, userVoice, u, ch)
       IN  /\ voiceState' = r.voiceState
           /\ userVoice' = r.userVoice
           /\ wire' = wire \cup SwitchLeaves(frames + 1, r.prev, ch, u, 0)
                           \cup JoinCalls(frames + 1, ch, u, 0)
    /\ UNCHANGED <<hubRest, sfuVars, meshVars>>

\* The store leave and the media leave call of a user who was in a channel.
GwLeave(u, why) ==
    /\ frames < GwMaxFrames
    /\ frames' = frames + 1
    /\ LET r == LeaveVoiceChannel(voiceState, userVoice, u)
       IN  /\ voiceState' = r.voiceState
           /\ userVoice' = r.userVoice
           /\ wire' = IF r.was /\ MediaConfigured
                      THEN wire \cup {Call(frames + 1, "leave", r.channelID, u, 0, why)}
                      ELSE wire
    /\ UNCHANGED <<hubRest, sfuVars, meshVars>>

\* handleVoiceStateUpdate with channel_id null.
GwVoiceStateLeave(u) == GwLeave(u, "leave")

\* Run's unregister case for a connection of u.
GwDisconnect(u) == GwLeave(u, "disconnect")

\* media.Client.Join reaches the join handler.
GwJoinArrives(g) ==
    /\ g \in wire
    /\ g.op = "join" /\ g.phase = "inflight"
    /\ JoinRequest(g.ch, g.u)
    /\ wire' = (wire \ {g}) \cup {AtPhase(g, "sfu")}
    /\ UNCHANGED <<hubVars, meshVars>>

\* media.Client.Leave reaches the leave handler, which answers 204.
GwLeaveArrives(g) ==
    /\ g \in wire
    /\ g.op = "leave"
    /\ LeaveRequest(g.ch, g.u)
    /\ wire' = wire \ {g}
    /\ UNCHANGED <<hubVars, meshVars>>

GwJoinRoomCreated ==
    \E q \in reqs : JoinRoomCreated(q) /\ UNCHANGED <<hubVars, wire, meshVars>>

\* The join handler answers; media.Client.do returns an error on a 500.
GwJoinAnswered ==
    \E q \in reqs, g \in wire :
        /\ g.op = "join" /\ g.phase = "sfu" /\ g.ch = q.ch /\ g.u = q.u
        /\ JoinTransportsCreated(q)
        /\ wire' = IF lastResp'.status = 200 THEN wire \ {g}
                   ELSE (wire \ {g}) \cup {AtPhase(g, "failed")}
        /\ UNCHANGED <<hubVars, meshVars>>

NextGateway ==
    \/ \E u \in GwUsers(frames), ch \in GwChannels : GwVoiceStateJoin(u, ch)
    \/ \E u \in GwUsers(frames) : GwVoiceStateLeave(u)
    \/ \E u \in GwUsers(frames) : GwDisconnect(u)
    \/ \E g \in wire : GwJoinArrives(g)
    \/ \E g \in wire : GwLeaveArrives(g)
    \/ GwJoinRoomCreated
    \/ GwJoinAnswered

SpecGateway == Init /\ [][NextGateway]_vars

\* =============================================== the clients of a channel
\* Every user runs VoiceService.join once on the same channel and stays.  The
\* hub relays each frame and each answer; a relay that is late is a client
\* step taken late, so an answer reaches its client in the step that sends it.
MeshChannel == "general"

\* A property a JavaScript object does not have.
Undefined == "<undefined>"

\* The `d` of a VOICE_STATE_UPDATE envelope as the hub marshals it.
Payload(evt) == [user_id |-> evt.user, channel_id |-> evt.channel]

\* `event.d.<k>` on the parsed envelope.
Field(d, k) == IF k \in DOMAIN d THEN d[k] ELSE Undefined

\* JavaScript truthiness of a Map lookup result.
Truthy(x) == x \notin {Undefined, Null, ""}

\* useVoiceStore.setVoiceState(userId, channelId) on the store of client c.
setVoiceState(c, userId, channelId) ==
    LET prev == MapGet(c.userChannel, userId, Undefined)
        left == MapGet(c.channelMembers, prev, {}) \ {userId}
        cm1  == IF ~Truthy(prev) THEN c.channelMembers
                ELSE IF left = {} THEN MapDelete(c.channelMembers, prev)
                ELSE MapPut(c.channelMembers, prev, left)
    IN  IF channelId = Null
        THEN [c EXCEPT !.channelMembers = cm1,
                       !.userChannel = MapDelete(c.userChannel, userId)]
        ELSE [c EXCEPT !.channelMembers =
                           MapPut(cm1, channelId,
                                  MapGet(cm1, channelId, {}) \cup {userId}),
                       !.userChannel = MapPut(c.userChannel, userId, channelId)]

\* `channelMembers.get(this.channelId)?.size ?? 0`
MemberCount(c) == Cardinality(MapGet(c.channelMembers, MeshChannel, {}))

\* consumeAll's guard passes: the consume signal is sent.
ConsumeAllStart(c) ==
    [c EXCEPT !.consumeInProgress = TRUE, !.pc = "consume-sent"]

\* consumeAll returns; after the first one join() records the member count and
\* subscribes to the store.
ConsumeAllDone(c) ==
    [c EXCEPT !.consumeInProgress = FALSE,
              !.pc = "watching",
              !.prevMemberCount = IF c.watching THEN @ ELSE MemberCount(c),
              !.watching = TRUE]

\* The store subscription of join(): consumeAll when the count has grown.
OnStoreChange(c) ==
    LET c1 == IF MemberCount(c) > c.prevMemberCount /\ ~c.consumeInProgress
              THEN ConsumeAllStart(c) ELSE c
    IN  [c1 EXCEPT !.prevMemberCount = MemberCount(c)]

\* VoiceService.join sends the voice state; the hub records the member and
\* broadcasts VOICE_STATE_UPDATE to every connected client.
MeshJoin(u) ==
    /\ client[u].pc = "idle"
    /\ client' = [client EXCEPT ![u].pc = "join-sent"]
    /\ LET r == JoinVoiceChannel(voiceState, userVoice, u, MeshChannel)
       IN  voiceState' = r.voiceState /\ userVoice' = r.userVoice
    /\ inbox' = [v \in Users |->
                    Append(inbox[v], Payload(VoiceStateUpdate(u, MeshChannel)))]
    /\ UNCHANGED <<hubRest, frames, sfuVars, wire, socket>>

\* The hub's media join call reaches the media service.
MeshJoinArrives(u) ==
    /\ client[u].pc = "join-sent"
    /\ JoinRequest(MeshChannel, u)
    /\ client' = [client EXCEPT ![u].pc = "join-sfu"]
    /\ UNCHANGED <<hubVars, wire, inbox, socket>>

MeshJoinRoomCreated ==
    \E q \in reqs : JoinRoomCreated(q) /\ UNCHANGED <<hubVars, wire, meshVars>>

\* join_response: the client loads the device, creates its transports and
\* produces; a failed join is not relayed and join() times out.
MeshJoinAnswered ==
    \E q \in reqs :
        /\ JoinTransportsCreated(q)
        /\ client' = [client EXCEPT ![q.u].pc =
                         IF lastResp'.status = 200 THEN "produce-sent" ELSE "failed"]
        /\ UNCHANGED <<hubVars, wire, inbox, socket>>

\* The produce signal, relayed for a member of the channel.
MeshProduceArrives(u) ==
    /\ client[u].pc = "produce-sent"
    /\ MapGet(userVoice, u, "") = MeshChannel
    /\ ProduceRequest(MeshChannel, u)
    /\ client' = [client EXCEPT ![u].pc =
                     IF reqs' = reqs THEN "failed" ELSE "produce-sfu"]
    /\ UNCHANGED <<hubVars, wire, inbox, socket>>

\* produce_response: sendTx.produce resolves and join() calls consumeAll.
MeshProduceAnswered ==
    \E q \in reqs, rejected \in BOOLEAN :
        /\ ProduceDone(q, rejected)
        /\ client' = [client EXCEPT ![q.u] =
                         IF lastResp'.status = 200 THEN ConsumeAllStart(@)
                         ELSE [@ EXCEPT !.pc = "failed"]]
        /\ UNCHANGED <<hubVars, wire, inbox, socket>>

\* The consume signal; answered at once when there is nothing to consume.
\* consumeAll catches a failure and returns all the same.  The resume-consumer
\* signals of setupConsumer change a consumer's paused flag only.
MeshConsumeArrives(u) ==
    /\ client[u].pc = "consume-sent"
    /\ MapGet(userVoice, u, "") = MeshChannel
    /\ ConsumeRequest(MeshChannel, u)
    /\ client' = [client EXCEPT ![u] =
                     IF reqs' = reqs THEN ConsumeAllDone(@)
                     ELSE [@ EXCEPT !.pc = "consume-sfu"]]
    /\ UNCHANGED <<hubVars, wire, inbox, socket>>

\* The consume handler resumes, and answers when its loops are through.
MeshConsumeAnswered ==
    \E q \in reqs, rejected \in BOOLEAN :
        /\ ConsumeDone(q, rejected)
        /\ client' = [client EXCEPT ![q.u] =
                         IF \E k \in reqs' : k.id = q.id THEN @
                         ELSE ConsumeAllDone(@)]
        /\ UNCHANGED <<hubVars, wire, inbox, socket>>

\* SpectrusSocket.dispatch of the next VOICE_STATE_UPDATE, and the store
\* subscription it wakes.
MeshDeliver(v) ==
    /\ inbox[v] # <<>>
    /\ inbox' = [inbox EXCEPT ![v] = Tail(@)]
    /\ LET d == Head(inbox[v])
           c == setVoiceState(client[v], Field(d, "userId"), Field(d, "channelId"))
       IN  client' = [client EXCEPT ![v] =
                         IF c.watching THEN OnStoreChange(c) ELSE c]
    /\ UNCHANGED <<hubVars, sfuVars, wire, socket>>

NextMesh ==
    \/ \E u \in Users : MeshJoin(u)
    \/ \E u \in Users : MeshJoinArrives(u)
    \/ MeshJoinRoomCreated
    \/ MeshJoinAnswered
    \/ \E u \in Users : MeshProduceArrives(u)
    \/ MeshProduceAnswered
    \/ \E u \in Users : MeshConsumeArrives(u)
    \/ MeshConsumeAnswered
    \/ \E v \in Users : MeshDeliver(v)

SpecMesh == Init /\ [][NextMesh]_vars

\* ===================================================== the client socket
\* One SpectrusSocket (client/src/ws/SpectrusSocket.ts) and the events the
\* browser delivers to it.  WebSockets and timers are rows of two tables,
\* numbered in creation order; 0 is null.
MaxSockets == 3

\* Close codes a close event can carry: normal, going away, abnormal.
CloseCodes == {1000, 1001, 1006}

\* WebSocket.close(): starts the closing handshake unless it is under way or over.
wsClose(k) ==
    IF k.state \in {"connecting", "open"} THEN [k EXCEPT !.state = "closing"] ELSE k

\* connect(): nothing once destroyed, else a new WebSocket becomes this.ws.
connect(s) ==
    IF s.destroyed THEN s
    ELSE [s EXCEPT !.socks = Append(@, NewWebSocket), !.ws = Len(s.socks) + 1]

\* scheduleReconnect(): nothing once destroyed, else attempt++ and a timer
\* that becomes this.retryTimer.
scheduleReconnect(s) ==
    IF s.destroyed THEN s
    ELSE [s EXCEPT !.attempt = @ + 1,
                   !.timers = Append(@, "pending"),
                   !.retryTimer = Len(s.timers) + 1]

\* A close listener that reconnects after a clean close too.
ReconnectsOnAnyCode(s, code) == ~s.destroyed

\* The two guards of the close listener.
ReconnectsOn(s, code) == ~s.destroyed /\ code # 1000

offSocket == <<hubVars, sfuVars, wire, client, inbox>>

\* 'open' on WebSocket i: attempt = 0.
SocketOpen(i) ==
    /\ socket.socks[i].state = "connecting"
    /\ socket' = [socket EXCEPT !.socks[i].state = "open", !.attempt = 0]
    /\ UNCHANGED offSocket

\* 'error' on WebSocket i: the listener calls ws.close().
SocketError(i) ==
    /\ socket.socks[i].state \in {"connecting", "open"}
    /\ socket' = [socket EXCEPT !.socks[i] = wsClose(@)]
    /\ UNCHANGED offSocket

\* 'close' on WebSocket i with the given code: the listener returns when
\* destroyed or on code 1000, else calls scheduleReconnect().
SocketClose(i, code) ==
    /\ socket.socks[i].state # "closed"
    /\ LET s == [socket EXCEPT !.socks[i] = [state |-> "closed", code |-> code]]
       IN  socket' = IF ReconnectsOn(s, code) THEN scheduleReconnect(s) ELSE s
    /\ UNCHANGED offSocket

\* The retry timer t fires: retryTimer = null, connect().
TimerFire(t) ==
    /\ socket.timers[t] = "pending"
    /\ Len(socket.socks) < MaxSockets
    /\ socket' = connect([socket EXCEPT !.timers[t] = "fired", !.retryTimer = 0])
    /\ UNCHANGED offSocket

\* destroy(): destroyed = true, the retry timer cleared, this.ws closed with
\* code 1000 and forgotten.
Destroy ==
    /\ LET s1 == [socket EXCEPT !.destroyed = TRUE]
           s2 == IF s1.retryTimer # 0
                 THEN [s1 EXCEPT !.timers[s1.retryTimer] =
                                     IF @ = "pending" THEN "cleared" ELSE @,
                                 !.retryTimer = 0]
                 ELSE s1
           s3 == IF s2.ws # 0
                 THEN [s2 EXCEPT !.socks[s2.ws] = wsClose(@), !.ws = 0]
                 ELSE s2
       IN  socket' = s3
    /\ UNCHANGED offSocket

NextSocket ==
    \/ \E i \in DOMAIN socket.socks : SocketOpen(i)
    \/ \E i \in DOMAIN socket.socks : SocketError(i)
    \/ \E i \in DOMAIN socket.socks, code \in CloseCodes : SocketClose(i, code)
    \/ \E t \in DOMAIN socket.timers : TimerFire(t)
    \/ Destroy

SpecSocket == Init /\ [][NextSocket]_vars

\* ------------------------------------------------------------ properties
Registered(u) == {c \in clients : UserID[c] = u}

\* The send channels of the connections in D each gained exactly evt.
GainedExactly(D, evt) == \A d \in D : send'[d] = Append(send[d], evt)

\* The join and signal goroutines spawned by this step.
Spawned == {g \in calls' \ calls : g.phase = "inflight"}

\* The media leave calls issued by this step.
LeavesIssued == leaves' \ leaves

\* Run handles an unregister of the registered connection c in this step.
Unregistering(c) == c \in clients /\ c \notin clients'

\* C1: the two voice maps are mutually consistent in every reachable state:
\* u is in voiceState[ch] if and only if userVoice[u] = ch, for every channel
\* id a client can send, the empty string included.
C1_VoiceMapsConsistent ==
    \A u \in Users, ch \in Channels :
        (u \in VoiceMembers(ch))
            <=> (VoiceChannelOf(u).ok /\ VoiceChannelOf(u).channelID = ch)

\* C2: a user occupies at most one voice channel at a time: in every reachable
\* state each user is in at most one channel's member set.
C2_AtMostOneVoiceChannel ==
    \A u \in Users : Cardinality({ch \in Channels : u \in VoiceMembers(ch)}) <= 1

\* C3: a VOICE_SIGNAL frame leads to a media signal call only if, when the
\* frame is handled, the store records the sender as a member of the claimed
\* channel; a handled frame that spawns no signal call enqueues nothing on any
\* connection, and a signal response is only ever enqueued by a live signal
\* call, on the connection that call came from.
C3_SignalOnlyWhenMember ==
    [][ /\ \A g \in Spawned :
             g.op = "signal" =>
                 /\ g.ch # ""
                 /\ g.u \in VoiceMembers(g.ch)
                 /\ VoiceChannelOf(g.u).ok /\ VoiceChannelOf(g.u).channelID = g.ch
        /\ frames' # frames => send' = send
        /\ \A c \in Conns :
             (/\ Len(send'[c]) = Len(send[c]) + 1
              /\ send'[c][Len(send'[c])].t = "VOICE_SIGNAL"
              /\ send'[c][Len(send'[c])].kind # "join_response")
             => \E g \in calls \ calls' :
                    /\ g.op = "signal" /\ g.conn = c /\ g.phase = "inflight"
                    /\ send'[c][Len(send'[c])] = VoiceSignalResponse(g.kind, g.ch)
      ]_vars

\* C3 witness: a signal frame passed the gate and its call is in flight, the
\* sender being in the claimed channel.
C3_Witness ==
    \E g \in calls :
        /\ g.op = "signal" /\ g.phase = "inflight"
        /\ g.u \in VoiceMembers(g.ch)

\* C4: when the only registered connection of u is unregistered while u is in
\* voice channel ch, every remaining registered connection is sent exactly one
\* VOICE_STATE_UPDATE{u, null}, exactly one media leave(ch, u) is issued, and
\* the store no longer records u in any channel.
C4_LastConnectionLeave ==
    [][ \A c \in Conns :
          (/\ Unregistering(c)
           /\ Registered(UserID[c]) = {c}
           /\ VoiceChannelOf(UserID[c]).ok)
          => /\ GainedExactly(clients', VoiceStateUpdate(UserID[c], Null))
             /\ \E g \in LeavesIssued :
                    /\ LeavesIssued = {g}
                    /\ g.u = UserID[c] /\ g.ch = userVoice[UserID[c]]
             /\ UserID[c] \notin DOMAIN userVoice'
             /\ \A k \in Channels : UserID[c] \notin MapGet(voiceState', k, {})
      ]_vars

\* C5: unregistering a connection runs the voice-leave cleanup only if it was
\* the user's last registered connection: with another connection of the user
\* still registered, the voice membership is unchanged, no media leave is
\* issued and nothing is fanned out.
C5_CleanupOnlyOnLastConnection ==
    [][ \A c \in Conns :
          (Unregistering(c) /\ Registered(UserID[c]) # {c})
          => /\ voiceState' = voiceState
             /\ userVoice' = userVoice
             /\ LeavesIssued = {}
             /\ send' = send
      ]_vars

\* C6: unregister is idempotent: once a connection has been submitted to
\* unregister twice (slow-consumer eviction and readPump's deferred send) and
\* Run has received a submission, the effect is that of one unregister: the
\* connection is out of the registry and the presence index, its send channel
\* was closed once, the voice cleanup ran, and the hub is alive.
C6_UnregisterIdempotent ==
    \A c \in Conns :
        (unregSeen[c] >= 1 /\ unregSeen[c] + Cardinality(Submitters(c)) >= 2)
        => /\ c \notin clients
           /\ c \notin SeqRange(MapGet(userIndex, UserID[c], <<>>))
           /\ closeCount[c] = 1
           /\ cleaned[c]
           /\ hubState # "panicked"

\* C7: a connection's send channel is closed at most once over all paths
\* (sendEvent's eviction, Run's unregister case).
C7_ClosedAtMostOnce == \A c \in Conns : closeCount[c] <= 1

\* C8: when a broadcast meets a registered connection whose send channel is
\* full, the broadcast still reaches every other registered connection and
\* the hub goes on to serve its channels.
C8_SlowConsumerEviction ==
    [][ (/\ hubState = "running"
         /\ Len(broadcast') < Len(broadcast)
         /\ \E c \in clients : ~IsClosed(closeCount, c) /\ Len(send[c]) >= QueueCap)
        => /\ GainedExactly({d \in clients : /\ ~IsClosed(closeCount, d)
                                             /\ Len(send[d]) < QueueCap},
                            Head(broadcast))
           /\ hubState' = "running"
      ]_vars

\* C9: the Run goroutine never blocks in a send on one of the hub's own
\* channels while handling an unregister or a broadcast.
C9_RunNeverBlocksOnItself == hubState # "blocked"

\* C10: a user id is a key of userIndex if and only if at least one of the
\* user's connections is in clients, and userIndex[u] holds exactly the user's
\* registered connections, each once.
C10_PresenceIndex ==
    \A u \in Users :
        /\ (u \in DOMAIN userIndex) <=> (Registered(u) # {})
        /\ u \in DOMAIN userIndex =>
              /\ SeqRange(userIndex[u]) = Registered(u)
              /\ Len(userIndex[u]) = Cardinality(Registered(u))

\* C10 witness: a user registered two connections and Run has unregistered
\* the first; the second is still in the index.
C10_Witness ==
    /\ UserID[1] = UserID[2]
    /\ unregSeen[1] = 1
    /\ 1 \notin clients
    /\ userIndex = (UserID[2] :> <<2>>)

\* C11: a VOICE_STATE_UPDATE frame with channel id ch from a connection of u
\* records u in ch in the store and spawns exactly one media join(ch, u) call,
\* and when Run processes the resulting VOICE_STATE_UPDATE{u, ch} broadcast,
\* every connection registered at that moment is sent exactly that event.
C11_JoinRecordedCalledBroadcast ==
    [][ /\ \A c \in Conns :
             (rpc[c] = "read" /\ rpc'[c] = "bcast" /\ pending'[c].channel # Null)
             => LET u == UserID[c]
                    ch == pending'[c].channel
                IN  /\ pending'[c] = VoiceStateUpdate(u, ch)
                    /\ u \in MapGet(voiceState', ch, {})
                    /\ MapGet(userVoice', u, Null) = ch
                    /\ \E g \in Spawned :
                           /\ Spawned = {g}
                           /\ g.op = "join" /\ g.ch = ch /\ g.u = u
        /\ (/\ hubState = "running"
            /\ Len(broadcast') < Len(broadcast)
            /\ Head(broadcast).t = "VOICE_STATE_UPDATE"
            /\ Head(broadcast).channel # Null)
           => GainedExactly(clients, Head(broadcast))
      ]_vars

\* C20: a media response is relayed only to the connection that sent the
\* triggering frame: every call is spawned for the connection whose readPump
\* handled the frame, and a step that enqueues a VOICE_SIGNAL envelope enqueues
\* it on the connection of the call being answered and changes no other
\* connection's queue, other connections of the same user included.
C20_ResponseToOriginOnly ==
    [][ /\ \A g \in Spawned :
             /\ rpc[g.conn] = "read"
             /\ UserID[g.conn] = g.u
             /\ g.op = "join" => rpc'[g.conn] = "bcast" /\ g.kind = "join_response"
        /\ \A c \in Conns :
             (/\ Len(send'[c]) = Len(send[c]) + 1
              /\ send'[c][Len(send'[c])].t = "VOICE_SIGNAL")
             => /\ \E g \in calls \ calls' :
                       /\ g.phase = "inflight" /\ g.conn = c
                       /\ send'[c] = Append(send[c], VoiceSignalResponse(g.kind, g.ch))
                /\ \A d \in Conns \ {c} : send'[d] = send[d]
      ]_vars

\* C20 witness: a user has two registered connections; the response to the
\* frame sent on the second sits in the second's queue and the first's is empty.
C20_Witness ==
    /\ UserID[1] = UserID[2]
    /\ {1, 2} \subseteq clients
    /\ send[1] = <<>>
    /\ send[2] # <<>>
    /\ send[2][1].t = "VOICE_SIGNAL"

\* ------------------------------------------------------- SFU properties
\* The Peer object p is in a Room's peers Map.
InRoom(p, rt) ==
    \E r \in DOMAIN rt : \E u \in DOMAIN rt[r].peers : rt[r].peers[u] = p

\* The open consumers whose 'producerclose' notification is still to come.
PendingNotify ==
    {j \in DOMAIN consumerTab :
        ~consumerTab[j].closed /\ producerTab[consumerTab[j].producer].closed}

\* The producers created on a transport of the Peer object p.
ProducersOf(p) == {i \in DOMAIN producerTab : producerTab[i].peer = p}

\* The Peer object k holds, in its consumers Map, a consumer of producer i.
Consumes(k, i, pt, ct) ==
    \E j \in DOMAIN ct : ConsumerId(j) \in pt[k].consumers /\ ct[j].producer = i

\* C13: exactly one Room exists per channel at a time: every open Room (one
\* whose router is not closed) is the Room the registry holds for its channel
\* id, so every Peer of the channel is in that single Room and no second Room
\* holds Peers outside the registry.
C13_OneRoomPerChannel ==
    \A r \in DOMAIN roomTab :
        ~roomTab[r].closed
        => /\ roomTab[r].channelId \in DOMAIN rooms
           /\ rooms[roomTab[r].channelId] = r

\* A consume request is answered 200 in this step.
ConsumeAnswered ==
    /\ lastResp'.id # lastResp.id
    /\ lastResp'.op = "consume"
    /\ lastResp'.status = 200

\* C14: consume catch-up returns each remote producer exactly once: the
\* descriptors of one answer are sourced from distinct producers, none of them
\* from a producer the Peer already has an open Consumer for (a second
\* consume with no new producers returns an empty list and creates no
\* Consumer), and an empty answer means every remote producer in the Room is
\* being consumed by the Peer.
C14_ConsumeCatchUpOnce ==
    [][ ConsumeAnswered =>
          LET body == lastResp'.body
              r == rooms'[lastResp'.ch]
              p == roomTab'[r].peers[lastResp'.u]
          IN  /\ \A k1, k2 \in DOMAIN body :
                    k1 # k2 => body[k1].producerId # body[k2].producerId
              /\ \A k \in DOMAIN body :
                    LET j == body[k].id[2]
                    IN  ~\E j0 \in DOMAIN consumerTab' :
                            /\ j0 < j
                            /\ ~consumerTab'[j0].closed
                            /\ consumerTab'[j0].peer = consumerTab'[j].peer
                            /\ consumerTab'[j0].producer = consumerTab'[j].producer
              /\ body = <<>> =>
                    \A v \in DOMAIN roomTab'[r].peers \ {lastResp'.u} :
                        \A i \in DOMAIN producerTab' :
                            (/\ ProducerId(i) \in peerTab'[roomTab'[r].peers[v]].producers
                             /\ ~producerTab'[i].closed)
                            => Consumes(p, i, peerTab', consumerTab')
      ]_vars

\* C15: no Peer of a Room holds two open Consumers sourced from the same
\* remote Producer, in any reachable state.
C15_NoDuplicateConsumers ==
    \A p \in DOMAIN peerTab : InRoom(p, roomTab) =>
        \A j1, j2 \in DOMAIN consumerTab :
            (/\ j1 # j2
             /\ ConsumerId(j1) \in peerTab[p].consumers
             /\ ConsumerId(j2) \in peerTab[p].consumers
             /\ ~consumerTab[j1].closed /\ ~consumerTab[j2].closed)
            => consumerTab[j1].producer # consumerTab[j2].producer

\* The open transports of direction dir created for the Peer object p.
OpenTransports(p, dir) ==
    {t \in DOMAIN transportTab :
        /\ transportTab[t].peer = p
        /\ transportTab[t].dir = dir
        /\ ~transportTab[t].closed}

\* C16: a Peer owns at most one open send transport and one open receive
\* transport in every reachable state: of the transports created for it by
\* any sequence of joins, overlapping ones included, only the pair it holds
\* can be open.
C16_OneTransportPair ==
    \A p \in DOMAIN peerTab : InRoom(p, roomTab) =>
        /\ Cardinality(OpenTransports(p, "send")) <= 1
        /\ Cardinality(OpenTransports(p, "recv")) <= 1
        /\ OpenTransports(p, "send") \subseteq {peerTab[p].sendTransport}
        /\ OpenTransports(p, "recv") \subseteq {peerTab[p].recvTransport}

\* Room.removePeer deletes the user u from the Room r's peers in this step.
Removed(r, u) ==
    /\ u \in DOMAIN roomTab[r].peers
    /\ u \notin DOMAIN roomTab'[r].peers

\* C17: cascade on removePeer: after Room.removePeer(u), u is not in the
\* Room's peer set, both transports of u's Peer and all of its Producers and
\* Consumers are closed, and no remaining Peer's consumer set contains a
\* Consumer sourced from one of u's Producers.
C17_CascadeOnRemovePeer ==
    [][ \A r \in DOMAIN roomTab : \A u \in Users :
          Removed(r, u) =>
            LET p == roomTab[r].peers[u]
            IN  /\ ~InRoom(p, roomTab')
                /\ \A t \in {peerTab[p].sendTransport, peerTab[p].recvTransport} \ {0} :
                      transportTab'[t].closed
                /\ \A i \in ProducersOf(p) : producerTab'[i].closed
                /\ \A j \in DOMAIN consumerTab :
                      consumerTab[j].peer = p => consumerTab'[j].closed
                /\ \A k \in DOMAIN peerTab' :
                      InRoom(k, roomTab') =>
                        \A i \in ProducersOf(p) : ~Consumes(k, i, peerTab', consumerTab')
      ]_vars

\* C17, settled: the same cascade, the other Peers' consumer sets being
\* looked at only once every 'producerclose' notification has been delivered:
\* every Producer of a removed Peer is closed and no Peer of a Room holds a
\* Consumer sourced from it.
C17_CascadeSettled ==
    PendingNotify = {} =>
        \A p \in DOMAIN peerTab : ~InRoom(p, roomTab) =>
            \A i \in ProducersOf(p) :
                /\ producerTab[i].closed
                /\ \A k \in DOMAIN peerTab :
                      InRoom(k, roomTab) => ~Consumes(k, i, peerTab, consumerTab)

\* The send transport t closes in this step and its Peer stays in its Room.
SendTransportCloses(t) ==
    /\ transportTab[t].dir = "send"
    /\ ~transportTab[t].closed
    /\ transportTab'[t].closed
    /\ InRoom(transportTab[t].peer, roomTab')

\* C18: when Peer A's send transport closes while A stays in the Room, every
\* Producer created on that transport is removed from A's producer set and
\* every Consumer of another Peer sourced from such a Producer is removed
\* from that Peer's consumer set.
C18_SendTransportClose ==
    [][ \A t \in DOMAIN transportTab :
          SendTransportCloses(t) =>
            \A i \in DOMAIN producerTab :
                producerTab[i].transport = t =>
                    /\ ProducerId(i) \notin peerTab'[transportTab[t].peer].producers
                    /\ \A k \in DOMAIN peerTab' \ {transportTab[t].peer} :
                          ~Consumes(k, i, peerTab', consumerTab')
      ]_vars

\* C18, settled: once every 'producerclose' notification has been delivered,
\* no Producer created on a closed send transport of a Peer that is in its
\* Room is in that Peer's producer set or is the source of a Consumer in
\* another Peer's consumer set.
C18_SendTransportCloseSettled ==
    PendingNotify = {} =>
        \A t \in DOMAIN transportTab :
            (/\ transportTab[t].dir = "send"
             /\ transportTab[t].closed
             /\ InRoom(transportTab[t].peer, roomTab))
            => \A i \in DOMAIN producerTab :
                   producerTab[i].transport = t =>
                       /\ ProducerId(i) \notin peerTab[transportTab[t].peer].producers
                       /\ \A k \in DOMAIN peerTab \ {transportTab[t].peer} :
                             ~Consumes(k, i, peerTab, consumerTab)

\* --------------------------------------------------- gateway properties
\* The (channel, user) pairs the hub's voice store records.
HubMembers == {<<ch, u>> : ch \in DOMAIN voiceState, u \in Users} \cap
              {m \in (DOMAIN voiceState) \X Users : m[2] \in voiceState[m[1]]}

\* The (channel, user) Peers the media service holds in its open Rooms.
SfuPeers ==
    {m \in GwChannels \X Users :
        \E r \in DOMAIN roomTab :
            /\ ~roomTab[r].closed
            /\ roomTab[r].channelId = m[1]
            /\ m[2] \in DOMAIN roomTab[r].peers}

\* C12: cross-process consistency: once every media call the hub issued for
\* its joins, switches, leaves and disconnects has been answered with
\* success, the (channel, user) Peers held by the SFU are exactly the hub's
\* voice membership, in whatever order the calls reached the SFU.
C12_CrossProcessConsistency ==
    (wire = {} /\ reqs = {}) => SfuPeers = HubMembers

\* ------------------------------------------------------ mesh properties
\* The Peer object of user u in the channel's registered Room, 0 when none.
PeerOf(u) ==
    IF MeshChannel \in DOMAIN rooms /\ u \in DOMAIN roomTab[rooms[MeshChannel]].peers
    THEN roomTab[rooms[MeshChannel]].peers[u] ELSE 0

\* Every Peer holds a Consumer of an open Producer of every other Peer.
FullMesh ==
    \A u \in Users : \A v \in Users \ {u} :
        /\ PeerOf(u) # 0 /\ PeerOf(v) # 0
        /\ \E i \in ProducersOf(PeerOf(v)) :
               ~producerTab[i].closed /\ Consumes(PeerOf(u), i, peerTab, consumerTab)

\* Every client has finished join() and has no event, signal or answer left.
MeshQuiescent ==
    /\ reqs = {}
    /\ \A u \in Users : client[u].pc = "watching" /\ inbox[u] = <<>>

\* C19: full audio mesh: with each peer calling consume once after its own
\* join and again whenever the member count it observes grows, a set of peers
\* that join and stay ends with every peer holding a Consumer of every other
\* peer's Producer: once nothing is left to do, the mesh is complete.
C19_FullMeshReached == MeshQuiescent => FullMesh

\* ------------------------------------------------- late media responses
\* The connection's readPump has stopped reading: it stands in its deferred
\* unregister, or has ended.
TornDown(c) == rpc[c] \in {"unreg", "done"}

\* C21: a media call that completes after its originating connection has been
\* torn down is discarded: the step of its goroutine delivers nothing to the
\* connection, leaves the queue (closed, or full and still open), the registry
\* and the voice membership as they were, stops neither Run nor crashes it,
\* and the goroutine ends there without submitting the connection again.
C21_LateResponseDiscarded ==
    [][\A g \in calls :
          (/\ g.phase \in {"inflight", "closing"}
           /\ TornDown(g.conn)
           /\ IsClosed(closeCount, g.conn) \/ Len(send[g.conn]) >= QueueCap
           /\ g \notin calls')
          => /\ send' = send
             /\ closeCount' = closeCount
             /\ clients' = clients /\ userIndex' = userIndex
             /\ voiceState' = voiceState /\ userVoice' = userVoice
             /\ hubState' = hubState
             /\ ~\E k \in calls' : k.id = g.id /\ k.phase = "unreg"]_vars

\* --------------------------------------------------------- store pruning
\* C22: no channel with an empty member set persists: every key of voiceState
\* maps to a non-empty set, and every key of userVoice maps to a channel that
\* is a key of voiceState.
C22_NoEmptyChannel ==
    /\ \A ch \in DOMAIN voiceState : voiceState[ch] # {}
    /\ \A u \in DOMAIN userVoice : userVoice[u] \in DOMAIN voiceState

\* A channel's last member has left it and the channel is gone.
C22_Witness ==
    /\ \E g \in leaves : g.ch \notin DOMAIN voiceState
    /\ \E u \in DOMAIN userVoice : TRUE

\* ------------------------------------------------ SFU error handling
\* The signal (op, ch, u) names something that is not there: the room, the
\* Peer, the send transport a produce needs, any consumer for a
\* resume-consumer, or the signal type itself.
RefersToMissing(op, ch, u) ==
    LET l == SignalLookup(ch, u)
    IN  \/ l.status = 404
        \/ op = "unknown"
        \/ op = "produce" /\ peerTab[l.peer].sendTransport = 0
        \/ op = "resume-consumer" /\ peerTab[l.peer].consumers = {}

\* A refusal that reports the request as referring to nothing: 404, or the
\* 400 given to an unknown type.
NotFoundOutcome(status) == status \in {400, 404}

\* C23: a signal that references something that does not exist is answered
\* with a not-found outcome and leaves the registry, the Room and every Peer
\* as they were.
C23_NotFoundOnMissing ==
    [][(/\ nReq' = nReq + 1
        /\ lastResp'.id = nReq'
        /\ lastResp'.op \in {"produce", "consume", "resume-consumer", "unknown"}
        /\ RefersToMissing(lastResp'.op, lastResp'.ch, lastResp'.u))
       => /\ NotFoundOutcome(lastResp'.status)
          /\ UNCHANGED <<rooms, roomTab, peerTab, transportTab, producerTab,
                         consumerTab, reqs>>]_vars

\* The leave just answered was repeated with nothing in between.
LeaveAgain ==
    LeaveEffect(lastResp.ch, lastResp.u, rooms, roomTab, SfuState)

\* C24: SFU leave is idempotent: it answers 204 whatever the registry holds,
\* and a second leave for the same (channel, user) right after the first
\* leaves the registry, the rooms' peer sets and every object as the first
\* left them.
C24_LeaveIdempotent ==
    [][(nReq' = nReq + 1 /\ lastResp'.id = nReq' /\ lastResp'.op = "leave")
       => /\ lastResp'.status = 204
          /\ LeaveAgain'.rooms = rooms'
          /\ LeaveAgain'.roomTab = roomTab'
          /\ LeaveAgain'.S = SfuState']_vars

\* A leave has just removed the last Peer of a Room and destroyed the Room.
C24_Witness ==
    /\ lastResp.op = "leave" /\ lastResp.id = nReq
    /\ lastResp.ch \notin DOMAIN rooms
    /\ \E r \in DOMAIN roomTab : roomTab[r].closed /\ roomTab[r].channelId = lastResp.ch

\* ------------------------------------------------------ Room serialization
\* The Peer objects in Room r's peers Map.
PeersIn(r, rt) == {rt[r].peers[u] : u \in DOMAIN rt[r].peers}

\* C25: operations on one Room are serialized: while a consume is suspended
\* in its loops, no other join, produce, consume or removePeer changes the
\* Room's Peer set, the producers of its Peers, or the consumers of the
\* consuming Peer.
C25_RoomOpsSerialized ==
    [][\A q \in reqs \cap reqs' :
          q.op = "consume"
          => /\ roomTab'[q.room].peers = roomTab[q.room].peers
             /\ \A p \in PeersIn(q.room, roomTab) :
                    peerTab'[p].producers = peerTab[p].producers
             /\ peerTab'[q.peer].consumers = peerTab[q.peer].consumers]_vars

\* --------------------------------------------------- fan-out targets
\* C26: Run enqueues events only onto open queues: when Run takes an envelope
\* off h.broadcast, and when it fans out the VOICE_STATE_UPDATE of a
\* disconnect, every connection it ranges over has its send queue open.
C26_FanOutOnlyToOpen ==
    [][/\ (broadcast # <<>> /\ broadcast' = Tail(broadcast))
          => \A c \in clients : ~IsClosed(closeCount, c)
       /\ \A c \in Conns :
             (Unregistering(c) /\ LeavesIssued # {})
             => \A d \in clients \ {c} : ~IsClosed(closeCount, d)]_vars

\* ------------------------------------------------------ registry access
\* C27: clients and userIndex are read and written by the Run goroutine
\* alone: while an operation running on another goroutine is inside its
\* access to userIndex (SendToUser's range loop), Run writes neither map.
C27_RegistryOnlyOnRun ==
    [][sendToUser.pc = "range"
       => clients' = clients /\ userIndex' = userIndex]_vars

\* ----------------------------------------------------- channel switch
\* C28: on a voice-state join to channel ch by user u whose previous channel
\* is p, a media leave is issued, and then exactly one, for (p, u), if and
\* only if p is non-empty and differs from ch: a first join and a re-join of
\* the current channel issue none.
C28_SwitchLeaveIff ==
    [][\A c \in Conns :
          (rpc[c] = "read" /\ rpc'[c] = "bcast" /\ pending'[c].channel # Null)
          => LET u  == UserID[c]
                 ch == pending'[c].channel
                 p  == MapGet(userVoice, u, "")
             IN  IF p # "" /\ p # ch
                 THEN \E g \in LeavesIssued :
                          /\ LeavesIssued = {g}
                          /\ g.op = "leave" /\ g.ch = p /\ g.u = u
                 ELSE LeavesIssued = {}]_vars

\* A join frame has moved a user out of a previous channel.
C28_Witness ==
    \E g \in leaves : g.kind = "switch" /\ g.ch # "" /\ g.u \in DOMAIN userVoice

\* ------------------------------------------------------- explicit leave
\* The voice-state frames of the sessions on their own: three frames of
\* handleVoiceStateUpdate, with any channel id a frame can carry, the media
\* calls they spawn left standing.
NextStore ==
    \E u \in Users :
        \/ \E ch \in Channels : GwVoiceStateJoin(u, ch)
        \/ GwVoiceStateLeave(u)

SpecStore == Init /\ [][NextStore]_vars

\* The channels whose member set holds u.
RecordedIn(vs, u) == {k \in DOMAIN vs : u \in vs[k]}

\* C29: an explicit leave of a user the store records in a channel removes
\* the user from the store and issues exactly one media leave for that
\* channel and user; an explicit leave of a user in no channel changes
\* nothing in the store and issues no call.
C29_ExplicitLeave ==
    [][\A u \in Users :
          GwVoiceStateLeave(u)
          => IF RecordedIn(voiceState, u) # {}
             THEN /\ RecordedIn(voiceState', u) = {}
                  /\ u \notin DOMAIN userVoice'
                  /\ \E g \in wire' \ wire :
                         /\ wire' \ wire = {g}
                         /\ g.op = "leave" /\ g.u = u
                         /\ g.ch \in RecordedIn(voiceState, u)
             ELSE /\ voiceState' = voiceState /\ userVoice' = userVoice
                  /\ wire' = wire]_vars

\* --------------------------------------------------- relay never waits
\* A relay call spawned by a frame of connection c that has not returned.
Outstanding(c) == {g \in calls \cup leaves : g.conn = c /\ g.phase = "inflight"}

\* C30: while a media call spawned by an earlier frame of a connection is
\* outstanding, the handler of that frame returns (its hand-over to Broadcast
\* needs only room in the broadcast channel) and the connection's next frame
\* can be handled.
C30_RelayNeverWaits ==
    \A c \in Conns :
        (Outstanding(c) # {} /\ Alive)
        => /\ (rpc[c] = "bcast" /\ Len(broadcast) < BroadcastCap)
                  => ENABLED Broadcast(c)
           /\ (rpc[c] = "read" /\ frames < MaxFrames)
                  => /\ ENABLED HandleVoiceStateLeave(c)
                     /\ \A ch \in Channels :
                            /\ ENABLED HandleVoiceStateJoin(c, ch)
                            /\ \A type \in SignalTypes :
                                   ENABLED HandleVoiceSignal(c, ch, type)

\* A connection has had a second frame handled while the call of its first
\* frame is still outstanding.
C30_Witness ==
    \E c \in Conns :
        \E g \in Outstanding(c) :
            /\ rpc[c] = "read"
            /\ \E k \in calls \cup leaves : k.conn = c /\ k.id > g.id

\* ------------------------------------------------- per-connection order
\* The relay calls a frame handler of connection c spawns in this step.
SpawnedBy(c) ==
    {g \in (calls' \ calls) \cup (leaves' \ leaves) :
        g.conn = c /\ g.id # 0 /\ g.phase = "inflight"}

\* C31: frames of one connection are handled one at a time in receipt order:
\* while the handler of a frame stands at its broadcast submission, no later
\* frame of that connection is handled (no call of the connection is spawned,
\* the envelope to submit is not replaced), the submission hands over exactly
\* the envelope of that frame, at the tail of the broadcast channel, and the
\* envelope carries the mutation the frame made to the store.
C31_PerConnectionFifo ==
    [][\A c \in Conns :
          /\ rpc[c] = "bcast"
                => /\ SpawnedBy(c) = {}
                   /\ pending'[c] \in {pending[c], NoEvent}
                   /\ (rpc'[c] = "read")
                         => /\ broadcast' = Append(broadcast, pending[c])
                            /\ pending'[c] = NoEvent
          /\ SpawnedBy(c) # {}
                => /\ rpc[c] = "read" /\ pending[c] = NoEvent
                   /\ \A g \in SpawnedBy(c) : g.id = frames' /\ frames' = frames + 1
          /\ (rpc[c] = "read" /\ rpc'[c] = "bcast")
                => /\ pending'[c].user = UserID[c]
                   /\ pending'[c].channel =
                         MapGet(userVoice', UserID[c], Null)]_vars

\* A connection whose second voice-state frame is being handled after the
\* envelope of its first has been submitted.
C31_Witness ==
    \E c \in Conns :
        /\ rpc[c] = "bcast"
        /\ \E g \in calls \cup leaves : g.conn = c /\ g.id = 1
        /\ \E k \in calls \cup leaves : k.conn = c /\ k.id = 1 + 1

\* ------------------------------------------------------ upstream failure
\* C32: when a media join or signal call fails, the relay goroutine ends: no
\* envelope is enqueued on any connection, no call is issued again, no queue
\* is closed, and every connection that could have its next frame handled
\* before the failure still can.
C32_UpstreamFailureScoped ==
    [][\A g \in calls :
          MediaDone(g, FALSE)
          => /\ send' = send
             /\ calls' = calls \ {g}
             /\ leaves' = leaves
             /\ closeCount' = closeCount
             /\ clients' = clients
             /\ hubState' = hubState
             /\ \A c \in Conns :
                    /\ CanHandle(c)' = CanHandle(c)
                    /\ (ENABLED Broadcast(c))' = ENABLED Broadcast(c)]_vars

\* A call is in flight for a registered connection whose queue is open and
\* has room, so that a failure and an answer end differently.
C32_Witness ==
    \E g \in calls :
        /\ g.phase = "inflight" /\ g.conn \in clients
        /\ ~IsClosed(closeCount, g.conn) /\ Len(send[g.conn]) < QueueCap
        /\ CanHandle(g.conn)
        /\ ENABLED MediaDone(g, FALSE)

\* ---------------------------------------------------- disconnect cleanup
\* C33: when Run unregisters a connection c of user u, whatever the state of
\* the media leave calls, the cleanup completes: c is out of the registry and
\* the presence index, and when the store records u in a voice channel, u is
\* removed from it, every remaining connection is sent VOICE_STATE_UPDATE
\* {u, null}, and Run goes on.
C33_DisconnectCleanupCompletes ==
    [][\A c \in Conns :
          Unregistering(c)
          => LET u == UserID[c]
             IN  /\ c \notin SeqRange(MapGet(userIndex', u, <<>>))
                 /\ VoiceChannelOf(u).ok
                       => /\ u \notin DOMAIN userVoice'
                          /\ u \notin MapGet(voiceState', userVoice[u], {})
                          /\ GainedExactly(clients', VoiceStateUpdate(u, Null))
                          /\ hubState' = "running"]_vars

\* ------------------------------------------------------ paused consumers
\* The consumers a step takes out of the paused state.
Unpaused == {j \in DOMAIN consumerTab :
                consumerTab[j].paused /\ ~consumerTab'[j].paused}

\* C34: every Consumer is created paused, and a Consumer leaves the paused
\* state only in the step of a resume-consumer signal that names it, sent for
\* the user of the Peer that owns it and holds it in its consumers Map, and
\* answered 200; that step changes no other Consumer.
C34_PausedUntilResumed ==
    [][/\ \A j \in DOMAIN consumerTab' :
             j \notin DOMAIN consumerTab => consumerTab'[j].paused
       /\ \A j \in Unpaused :
             LET p == consumerTab[j].peer
             IN  /\ \E ch \in SfuChannels : ResumeRequest(ch, peerTab[p].userId, j)
                 /\ MapHas(peerTab[p].consumers, ConsumerId(j))
                 /\ lastResp'.op = "resume-consumer" /\ lastResp'.status = 200
                 /\ lastResp'.u = peerTab[p].userId
                 /\ \A k \in DOMAIN consumerTab \ {j} :
                        consumerTab'[k] = consumerTab[k]]_vars

\* An open Consumer held by its Peer has been resumed.
C34_Witness ==
    \E j \in DOMAIN consumerTab :
        /\ ~consumerTab[j].paused /\ ~consumerTab[j].closed
        /\ MapHas(peerTab[consumerTab[j].peer].consumers, ConsumerId(j))

\* --------------------------------------------------------- Room lifecycle
\* The Room objects the registry holds.
InRegistry(rs) == {rs[ch] : ch \in DOMAIN rs}

\* C35: a Room is created only by a join that finds no Room for its channel
\* in the registry; a Room leaves the registry only in the step of a leave
\* that empties its peer set, and is closed by it; a leave that empties the
\* peer set of its channel's Room closes and removes it; and when no join is
\* in flight every Room in the registry has at least one Peer.
C35_RoomLifecycle ==
    [][/\ \A r \in DOMAIN roomTab' :
             r \notin DOMAIN roomTab
             => /\ roomTab'[r].channelId \notin DOMAIN rooms
                /\ rooms' = MapPut(rooms, roomTab'[r].channelId, r)
       /\ \A r \in InRegistry(rooms) \ InRegistry(rooms') :
             /\ lastResp'.op = "leave" /\ lastResp'.id = nReq + 1
             /\ lastResp'.ch = roomTab[r].channelId
             /\ DOMAIN roomTab'[r].peers = {}
             /\ roomTab'[r].closed
       /\ \A r \in InRegistry(rooms) \cap InRegistry(rooms') :
             (lastResp'.op = "leave" /\ lastResp'.id = nReq + 1)
             => DOMAIN roomTab'[r].peers # {}
       /\ {q \in reqs' : q.op = "join"} = {}
             => \A r \in InRegistry(rooms') :
                    DOMAIN roomTab'[r].peers # {} /\ ~roomTab'[r].closed]_vars

\* -------------------------------------------------------- protocol errors
\* C36: every raw frame that is not JSON, carries an unrecognized op or has
\* an undecodable payload is dropped, and handling it changes neither the
\* voice store nor the registry, submits no broadcast, spawns no media call,
\* and leaves the connection registered, open and reading.
C36_ProtocolErrorsInert ==
    [][\A c \in Conns, f \in RawFrames :
          HandleRawFrame(c, f)
          => /\ Dispatch(f) = "drop"
             /\ voiceState' = voiceState /\ userVoice' = userVoice
             /\ clients' = clients /\ userIndex' = userIndex
             /\ broadcast' = broadcast /\ pending' = pending
             /\ calls' = calls /\ leaves' = leaves
             /\ send' = send /\ closeCount' = closeCount
             /\ rpc'[c] = "read" /\ hubState' = hubState
             /\ frames' < MaxFrames => CanHandle(c)']_vars

\* A frame has been handled and has left no trace: the store, the queues
\* and the calls are as at the start, and the connection reads on.
C36_Witness ==
    \E c \in clients :
        /\ frames = 1 /\ CanHandle(c)
        /\ userVoice = EmptyMap /\ voiceState = EmptyMap
        /\ calls = {} /\ leaves = {} /\ broadcast = <<>>
        /\ send[c] = <<>> /\ ~IsClosed(closeCount, c)
        /\ \E f \in RawFrames : ENABLED HandleRawFrame(c, f)

\* ------------------------------------------------------ socket teardown
\* The WebSocket i gets its close event in this step.
Closes(i) == socket.socks[i].state # "closed" /\ socket'.socks[i].state = "closed"

\* The retry timers this step schedules.
Scheduled == {t \in DOMAIN socket'.timers : t \notin DOMAIN socket.timers}

\* C37: once destroy() has run no WebSocket is created and no timer is
\* scheduled or left pending, whatever events follow; a close with code 1000
\* schedules no reconnect; any other close on a socket that is not destroyed
\* schedules exactly one, which becomes the retry timer.
C37_TeardownPermanent ==
    [][/\ socket.destroyed
             => /\ socket'.destroyed
                /\ Len(socket'.socks) = Len(socket.socks)
                /\ Scheduled = {}
                /\ \A t \in DOMAIN socket.timers : socket.timers[t] # "pending"
       /\ \A i \in DOMAIN socket.socks :
             Closes(i)
             => IF socket.destroyed \/ socket'.socks[i].code = 1000
                THEN Scheduled = {}
                ELSE /\ Scheduled = {Len(socket.timers) + 1}
                     /\ socket'.timers[Len(socket.timers) + 1] = "pending"
                     /\ socket'.retryTimer = Len(socket.timers) + 1
       /\ (\A i \in DOMAIN socket.socks : ~Closes(i)) => Scheduled = {}]_vars

\* After one reconnect, destroy() has run with a retry timer pending, which
\* it cleared, and every WebSocket is closed.
C37_Witness ==
    /\ socket.destroyed
    /\ \E t \in DOMAIN socket.timers : socket.timers[t] = "cleared"
    /\ \E t \in DOMAIN socket.timers : socket.timers[t] = "fired"
    /\ \A i \in DOMAIN socket.socks : socket.socks[i].state = "closed"

\* -------------------------------------------------- broadcast ordering
\* The handlers that have changed the store for user u and still stand
\* before h.Broadcast with the VOICE_STATE_UPDATE of that change.
HoldsUpdateFor(u) ==
    {d \in Conns : pending[d].t = "VOICE_STATE_UPDATE" /\ pending[d].user = u}

\* The same handlers after the step.
StillHoldsUpdateFor(u) ==
    {d \in Conns : pending'[d].t = "VOICE_STATE_UPDATE" /\ pending'[d].user = u}

\* C38: the last VOICE_STATE_UPDATE enqueued for a user carries the channel
\* the voice store records for that user (null if none): when a handler
\* hands its update to h.broadcast and no other handler still holds one for
\* the same user, the update's channel is the user's entry in userVoice.
C38_BroadcastMatchesStore ==
    [][\A c \in Conns :
          (/\ Broadcast(c)
           /\ pending[c].t = "VOICE_STATE_UPDATE"
           /\ StillHoldsUpdateFor(pending[c].user) = {})
          => pending[c].channel = MapGet(userVoice', pending[c].user, Null)]_vars

\* --------------------------------------------------- orphaned transports
\* The transports created by Room.join and not closed.
Open == {t \in DOMAIN transportTab : ~transportTab[t].closed}

\* C39: whenever no request is in flight, every open transport is the
\* sendTransport or recvTransport of its Peer, that Peer is in the peer set
\* of the Room the transport was created in, and that Room is the registry's
\* Room for its channel.
C39_NoOrphanedTransports ==
    reqs = {} =>
        \A t \in Open :
            LET r == transportTab[t].room
                p == transportTab[t].peer
            IN  /\ t \in {peerTab[p].sendTransport, peerTab[p].recvTransport}
                /\ \E u \in DOMAIN roomTab[r].peers : roomTab[r].peers[u] = p
                /\ r \in InRegistry(rooms)

\* ------------------------------------------------------------- teardown
\* The connection c is torn down: it is in neither registry, its send
\* channel is closed and its writePump has returned.
FullyClosed(c) ==
    /\ c \notin clients
    /\ \A u \in DOMAIN userIndex : c \notin SeqRange(userIndex[u])
    /\ IsClosed(closeCount, c)
    /\ wpc[c] = "done"

\* C40: once the read loop of a registered connection has ended and its
\* readPump stands in the unregister send, the connection is eventually
\* removed from clients and from the presence index, its send channel is
\* closed and its writePump returns.
C40_EventuallyTornDown ==
    \A c \in Conns : (rpc[c] = "unreg" /\ c \in clients) ~> FullyClosed(c)

====
